---- MODULE Spec2Model ----
(***************************************************************************)
(* ARIV inference gateway: the model registry and its loader, the router   *)
(* (Router.choose_model), the resident-model manager (ModelManager.touch), *)
(* the /v1/chat handler that ties them together, the streaming runner      *)
(* (LlamaCLI.stream_chat) with its child process, and the hardware probe.  *)
(*                                                                         *)
(* Strings whose content the code inspects (preferred_lang, task_hint,     *)
(* text) are sequences of Unicode code points; model names are only        *)
(* compared and used as keys and stay TLA+ strings.                        *)
(***************************************************************************)
EXTENDS Integers, Sequences, FiniteSets, TLC

VARIABLES
    registry,     \* ModelRegistry._models: name -> ModelSpec
    max_loaded,   \* ModelManager._max_loaded
    loaded,       \* ModelManager._loaded: name -> counter value of its last touch
    counter,      \* ModelManager._counter
    evicted,      \* the list returned by the latest touch
    touchLog,     \* history: one record per touch, [name, evicted], in call order
    lastReq,      \* arguments of the latest direct choose_model call
    decision,     \* its outcome: a RouteDecision or KeyError
    pinned,       \* history: arguments and outcome of the first choose_model call
    chatOut,      \* outcome of the latest /v1/chat handler run
    op,           \* name of the latest operation
    env,          \* process environment and file system read by the runner
    call,         \* arguments of the stream_chat call in progress
    status,       \* HTTP status the chat response started with (0: not started)
    frames,       \* items delivered to the consumer of the stream, in order
    session,      \* position of the runner session
    pulling,      \* TRUE while the consumer awaits the next item
    child,        \* the llama-cli child process
    outPipe,      \* child stdout pipe: lines written and not yet read
    errPipe,      \* child stderr pipe: chunks written and not yet read
    outWritten,   \* history: every line the child wrote to stdout
    stderr_chunks, \* chunks collected by _collect_stderr
    stderr_task,  \* the task running _collect_stderr
    spawns,       \* child processes created so far
    error,        \* the exception that ended the stream
    probe,        \* the latest probe_hardware call: what it met and its outcome
    document,     \* the parsed YAML document the registry was loaded from
    reg_order,    \* key order of ModelRegistry._models
    query,        \* the latest registry query and its result
    bench,        \* the latest benchmark computation: its list and results
    orch          \* the legacy JugaadOrchestrator and its latest call

runnerVars == <<env, call, status, frames, session, pulling, child, outPipe,
                errPipe, outWritten, stderr_chunks, stderr_task, spawns, error>>

toolVars == <<probe, document, reg_order, query, bench, orch>>

vars == <<registry, max_loaded, loaded, counter, evicted, touchLog,
          lastReq, decision, pinned, chatOut, op, runnerVars, toolVars>>

managerVars == <<max_loaded, loaded, counter, evicted, touchLog>>
routerVars == <<lastReq, decision, pinned>>

-----------------------------------------------------------------------------
(* Bounds of the model *)

MaxTouches == 5          \* touches per behaviour of the manager alone (caps _counter)
MaxAppTouches == 3       \* touches per behaviour of the running application
MaxCap == 3              \* largest max_loaded a manager is constructed with
MaxFallbackLen == 2      \* longest fallback list of a registry entry
MaxOutLines == 2         \* most lines a child writes to stdout
MaxErrChunks == 2        \* most chunks a child writes to stderr
PipeCap == 1             \* capacity of each child pipe, in lines / chunks
MaxTokens == 2           \* largest max_tokens of a direct stream_chat call

TouchNames == {"a", "b", "c", "d"}

Range(s) == {s[i] : i \in DOMAIN s}

-----------------------------------------------------------------------------
(* ModelManager *)

\* Faulty variant: picks the most recently touched name.
LruName_Mru(ld) ==
    CHOOSE n \in DOMAIN ld : \A m \in DOMAIN ld : ld[n] >= ld[m]

\* min(self._loaded, key=self._loaded.get): the resident name with the
\* smallest counter.
LruName(ld) ==
    CHOOSE n \in DOMAIN ld : \A m \in DOMAIN ld : ld[n] <= ld[m]

\* Faulty variant of the eviction loop: tolerates one entry too many.
RECURSIVE EvictLoop_OffByOne(_, _, _)
EvictLoop_OffByOne(ld, max, ev) ==
    IF Cardinality(DOMAIN ld) > max + 1
    THEN LET lru_name == LruName(ld)
         IN  EvictLoop_OffByOne([n \in DOMAIN ld \ {lru_name} |-> ld[n]], max,
                                Append(ev, lru_name))
    ELSE [loaded |-> ld, evicted |-> ev]

\* Faulty variant of the eviction loop: deletes without reporting.
RECURSIVE EvictLoop_Silent(_, _, _)
EvictLoop_Silent(ld, max, ev) ==
    IF Cardinality(DOMAIN ld) > max
    THEN LET lru_name == LruName(ld)
         IN  EvictLoop_Silent([n \in DOMAIN ld \ {lru_name} |-> ld[n]], max, ev)
    ELSE [loaded |-> ld, evicted |-> ev]

\* while len(self._loaded) > self._max_loaded: delete the LRU entry and
\* append its name to the eviction list.
RECURSIVE EvictLoop(_, _, _)
EvictLoop(ld, max, ev) ==
    IF Cardinality(DOMAIN ld) > max
    THEN LET lru_name == LruName(ld)
         IN  EvictLoop([n \in DOMAIN ld \ {lru_name} |-> ld[n]], max,
                       Append(ev, lru_name))
    ELSE [loaded |-> ld, evicted |-> ev]

\* Faulty variant: the counter is advanced only for a new name, as when an
\* update of the counter is lost between two callers.
touch_LostUpdate(ld, cnt, max, model_name) ==
    LET c == IF model_name \in DOMAIN ld THEN cnt ELSE cnt + 1
        written == (model_name :> c) @@ ld
        out == EvictLoop(written, max, <<>>)
    IN  [counter |-> c, loaded |-> out.loaded, evicted |-> out.evicted]

\* Faulty variant: a name that is already resident keeps its old counter
\* (setdefault instead of assignment).
touch_NoRefresh(ld, cnt, max, model_name) ==
    LET c == cnt + 1
        written == IF model_name \in DOMAIN ld THEN ld
                   ELSE (model_name :> c) @@ ld
        out == EvictLoop(written, max, <<>>)
    IN  [counter |-> c, loaded |-> out.loaded, evicted |-> out.evicted]

\* ModelManager.touch: the new counter, the new resident map and the
\* returned eviction list.
touch(ld, cnt, max, model_name) ==
    LET c == cnt + 1
        written == (model_name :> c) @@ ld
        out == EvictLoop(written, max, <<>>)
    IN  [counter |-> c, loaded |-> out.loaded, evicted |-> out.evicted]

\* ModelManager.loaded: the resident names (the code returns them sorted).
Loaded == DOMAIN loaded

\* The effect of one manager.touch(name) call on the manager's state.
TouchEffect(name) ==
    LET r == touch(loaded, counter, max_loaded, name)
    IN  /\ counter' = r.counter
        /\ loaded' = r.loaded
        /\ evicted' = r.evicted
        /\ touchLog' = Append(touchLog, [name |-> name, evicted |-> r.evicted])
        /\ UNCHANGED max_loaded

\* A caller touches one of `names`.
Touch(names) ==
    /\ Len(touchLog) < MaxTouches
    /\ \E name \in names : TouchEffect(name)
    /\ op' = "touch"
    /\ UNCHANGED <<registry, routerVars, chatOut, runnerVars, toolVars>>

-----------------------------------------------------------------------------
(* Strings as sequences of code points *)

\* Python None for an Optional[str] argument; -1 is no code point.
NoneStr == << -1 >>

\* Python None for an optional model name.
None == "<None>"

\* str.lower() on the ASCII range (A-Z -> a-z); other code points of the
\* sampled inputs have no case.
Lower(s) == [i \in DOMAIN s |-> IF s[i] \in 65..90 THEN s[i] + 32 ELSE s[i]]

\* Python `t in s` for strings: t occurs as a contiguous substring of s.
Contains(s, t) ==
    \E i \in 0..(Len(s) - Len(t)) : SubSeq(s, i + 1, i + Len(t)) = t

\* INDIC_LANGS: hi ta te kn bn ml gu pa mr ur
INDIC_LANGS ==
    { <<104, 105>>, <<116, 97>>, <<116, 101>>, <<107, 110>>, <<98, 110>>,
      <<109, 108>>, <<103, 117>>, <<112, 97>>, <<109, 114>>, <<117, 114>> }

\* CODE_HINTS: code python java sql debug logic reasoning
CODE_HINTS ==
    { <<99, 111, 100, 101>>, <<112, 121, 116, 104, 111, 110>>,
      <<106, 97, 118, 97>>, <<115, 113, 108>>, <<100, 101, 98, 117, 103>>,
      <<108, 111, 103, 105, 99>>,
      <<114, 101, 97, 115, 111, 110, 105, 110, 103>> }

\* The code-shape tokens of _classify_task: "def ", "class ", "```", "import "
CODE_SHAPES ==
    { <<100, 101, 102, 32>>, <<99, 108, 97, 115, 115, 32>>, <<96, 96, 96>>,
      <<105, 109, 112, 111, 114, 116, 32>> }

\* _classify_task
classify_task(task_hint, text) ==
    LET hint == IF task_hint = NoneStr THEN <<>> ELSE Lower(task_hint)
    IN  IF \E token \in CODE_HINTS : Contains(hint, token)
        THEN "code_logic"
        ELSE IF \E token \in CODE_SHAPES : Contains(Lower(text), token)
             THEN "code_logic"
             ELSE "indic"

\* _detect_indic; U+0900 = 2304, U+0DFF = 3583
detect_indic(preferred_lang, text) ==
    IF /\ preferred_lang # NoneStr
       /\ preferred_lang # <<>>
       /\ Lower(preferred_lang) \in INDIC_LANGS
    THEN TRUE
    ELSE \E i \in DOMAIN text : 2304 <= text[i] /\ text[i] <= 3583

estimate_gpu_layers_NoFloor(vram_mb, model_vram_mb) ==
    LET m == IF model_vram_mb > 1 THEN model_vram_mb ELSE 1
        scaled == (40 * vram_mb) \div m
    IN  IF vram_mb <= 0 THEN 0
        ELSE IF vram_mb >= model_vram_mb THEN 999
        ELSE IF scaled > 1 THEN scaled ELSE 1

\* _estimate_gpu_layers; max(int(40 * max(v / max(m, 1), 0.05)), 1) in
\* integer arithmetic: the ratio is below 0.05 exactly when 20 * v < max(m, 1).
estimate_gpu_layers(vram_mb, model_vram_mb) ==
    LET m == IF model_vram_mb > 1 THEN model_vram_mb ELSE 1
        scaled == IF 20 * vram_mb >= m THEN (40 * vram_mb) \div m ELSE 2
    IN  IF vram_mb <= 0 THEN 0
        ELSE IF vram_mb >= model_vram_mb THEN 999
        ELSE IF scaled > 1 THEN scaled ELSE 1

-----------------------------------------------------------------------------
(* ModelRegistry *)

QWEN == "qwen-2.5-3b-q4_k_m"
SARVAM == "sarvam-2b-q4_k_m"
LLAMA == "llama-3.2-1b-q4_k_m"
MOCK == "mock-0.1b-q4_0"
GHOST == "ghost-7b-q8_0"        \* a name no registry of the model holds

ModelNames == {QWEN, SARVAM, LLAMA, MOCK}

\* ModelRegistry.has
has(reg, name) == name \in DOMAIN reg

\* ModelRegistry.get is reg[name]; it raises KeyError when has(reg, name) is
\* false, which every caller below decides before applying it.
get(reg, name) == reg[name]

-----------------------------------------------------------------------------
(* Router *)

\* Faulty variant of the fallback walk: looks candidates up without asking
\* has() first, so an unregistered entry ends the walk (with a KeyError in
\* the code) and nothing after it is considered.
RECURSIVE FallbackWalk_NoHas(_, _, _, _)
FallbackWalk_NoHas(reg, fallback, i, vram_mb) ==
    IF i > Len(fallback) THEN None
    ELSE IF ~has(reg, fallback[i]) THEN None
    ELSE IF get(reg, fallback[i]).vram_mb <= vram_mb THEN fallback[i]
    ELSE FallbackWalk_NoHas(reg, fallback, i + 1, vram_mb)

\* Faulty variant of the fallback walk: takes the last fitting candidate
\* (the loop misses its break).
RECURSIVE FallbackWalk_NoBreak(_, _, _, _)
FallbackWalk_NoBreak(reg, fallback, i, vram_mb) ==
    IF i > Len(fallback) THEN None
    ELSE LET rest == FallbackWalk_NoBreak(reg, fallback, i + 1, vram_mb)
         IN  IF rest # None THEN rest
             ELSE IF has(reg, fallback[i])
                     /\ get(reg, fallback[i]).vram_mb <= vram_mb
                  THEN fallback[i]
                  ELSE None

\* Faulty variant of the fallback walk: takes the first registered candidate
\* whatever its size.
RECURSIVE FallbackWalk_AnySize(_, _, _, _)
FallbackWalk_AnySize(reg, fallback, i, vram_mb) ==
    IF i > Len(fallback) THEN None
    ELSE IF has(reg, fallback[i]) THEN fallback[i]
    ELSE FallbackWalk_AnySize(reg, fallback, i + 1, vram_mb)

\* for candidate in selected.fallback (from position i on): the first
\* candidate that is registered and fits vram_mb, or None.
RECURSIVE FallbackWalk(_, _, _, _)
FallbackWalk(reg, fallback, i, vram_mb) ==
    IF i > Len(fallback) THEN None
    ELSE IF has(reg, fallback[i]) /\ get(reg, fallback[i]).vram_mb <= vram_mb
         THEN fallback[i]
         ELSE FallbackWalk(reg, fallback, i + 1, vram_mb)

\* Faulty variant: language is looked at before the task.
PrimaryName_IndicFirst(task_type, is_indic) ==
    IF is_indic THEN SARVAM
    ELSE IF task_type = "code_logic" THEN QWEN
    ELSE LLAMA

\* The primary selection of choose_model.
PrimaryName(task_type, is_indic) ==
    IF task_type = "code_logic" THEN QWEN
    ELSE IF is_indic THEN SARVAM
    ELSE LLAMA

KeyError(name) == [status |-> "KeyError", key |-> name]

\* Faulty variant of the safety net: the chosen model is left as it is when
\* it overshoots.
SafetyNet_Off(reg, selected, fallback, vram_mb) ==
    [selected |-> selected, fallback |-> fallback]

\* The safety net of choose_model: when the chosen model
\* overshoots, record a fallback name and switch to LLAMA if registered.
SafetyNet(reg, selected, fallback, vram_mb) ==
    IF vram_mb < selected.vram_mb
    THEN [selected |-> IF has(reg, LLAMA) THEN get(reg, LLAMA) ELSE selected,
          fallback |-> IF fallback # None THEN fallback ELSE selected.name]
    ELSE [selected |-> selected, fallback |-> fallback]

\* choose_model from the lookup of the primary on: fallback walk, safety
\* net, GPU-layer estimate and the RouteDecision.
Route(reg, hardware, task_type, is_indic) ==
    LET primary == PrimaryName(task_type, is_indic)
    IN  IF ~has(reg, primary) THEN KeyError(primary)
        ELSE
        LET first == get(reg, primary)
            alt == IF hardware.vram_mb # 0 /\ first.vram_mb > hardware.vram_mb
                   THEN FallbackWalk(reg, first.fallback, 1, hardware.vram_mb)
                   ELSE None
            walked == IF alt # None
                      THEN [selected |-> get(reg, alt), fallback |-> first.name]
                      ELSE [selected |-> first, fallback |-> None]
            final == SafetyNet(reg, walked.selected, walked.fallback,
                               hardware.vram_mb)
        IN  [status |-> "ok",
             model |-> final.selected,
             fallback |-> final.fallback,
             num_gpu_layers |->
                 estimate_gpu_layers(hardware.vram_mb, final.selected.vram_mb),
             estimated_vram_mb |-> final.selected.vram_mb,
             reason |-> [task |-> task_type, indic |-> is_indic,
                         vram |-> hardware.vram_mb]]

\* Faulty variant: a model the manager already holds is preferred to the
\* routed one (the router reads the manager's state).
choose_model_Sticky(reg, hardware, preferred_lang, task_hint, text) ==
    LET base == Route(reg, hardware, classify_task(task_hint, text),
                      detect_indic(preferred_lang, text))
        held == {n \in DOMAIN loaded : has(reg, n)}
    IN  IF base.status = "ok" /\ held # {} /\ base.model.name \notin held
        THEN LET m == get(reg, CHOOSE n \in held : \A k \in held : loaded[n] >= loaded[k])
             IN  [base EXCEPT !.model = m, !.estimated_vram_mb = m.vram_mb]
        ELSE base

\* Router.choose_model on registry reg.
choose_model(reg, hardware, preferred_lang, task_hint, text) ==
    Route(reg, hardware, classify_task(task_hint, text),
          detect_indic(preferred_lang, text))

-----------------------------------------------------------------------------
(* Inputs *)

\* ModelSpec.vram_mb values of registry entries
ModelVram == {1500, 4000}

\* HardwareProfile.vram_mb values: an ARIV_FAKE_VRAM_MB below zero, the
\* default 0, and sizes below, at, between and above the model sizes
HwVram == {-1, 0, 1000, 1500, 2000, 4096}

FallbackNames == ModelNames \cup {GHOST}

FallbackLists == UNION {[1..n -> FallbackNames] : n \in 0..MaxFallbackLen}

\* The registries ModelRegistry.from_yaml can build over ModelNames: any
\* subset registered, any size per entry; the entries of one registry carry
\* the same fallback list (choose_model reads only the primary's).
Registries ==
    UNION { { [n \in D |-> [name |-> n, vram_mb |-> v[n], fallback |-> fb]] :
                v \in [D -> ModelVram], fb \in FallbackLists }
            : D \in SUBSET ModelNames }

\* Registries of a deployment that follows tests/test_models_yaml.py
\* (sarvam and the mock model are present) with short fallback lists.
AppRegistries ==
    { r \in Registries :
        /\ {SARVAM, MOCK, LLAMA} \subseteq DOMAIN r
        /\ QWEN \in DOMAIN r => r[QWEN].vram_mb = 4000
        /\ r[SARVAM].vram_mb = 4000
        /\ r[MOCK].vram_mb = 1500
        /\ r[LLAMA].vram_mb = 1500
        /\ r[LLAMA].fallback \in {<<>>, <<MOCK>>, <<GHOST, LLAMA>>} }

\* preferred_lang samples: None, "", "hi", "TA", "en"
Langs == {NoneStr, <<>>, <<104, 105>>, <<84, 65>>, <<101, 110>>}

\* task_hint samples: None, "SQL Debug", "chat", "decode"
Hints ==
    { NoneStr, <<83, 81, 76, 32, 68, 101, 98, 117, 103>>,
      <<99, 104, 97, 116>>, <<100, 101, 99, 111, 100, 101>> }

TextPlain == <<104, 105, 32, 116, 104, 101, 114, 101>>          \* "hi there"
TextHindi == <<2344, 2350, 2360, 2381, 2340, 2375>>             \* namaste in Devanagari
TextDef ==
    <<100, 101, 102, 32, 97, 100, 100, 40, 97, 44, 32, 98, 41, 58>>  \* "def add(a, b):"
TextClassHindi ==
    <<67, 108, 97, 115, 115, 32, 70, 111, 111, 32, 2344, 2350>>  \* "Class Foo " + Devanagari
TextUndefined == <<117, 110, 100, 101, 102, 105, 110, 101, 100>>  \* "undefined"

\* text samples, with the code points next to both ends of U+0900..U+0DFF
Texts ==
    { TextPlain, TextHindi, TextDef, TextClassHindi, TextUndefined,
      <<>>, <<2303>>, <<2304>>, <<3583>>, <<3584>> }

Request(vram, lang, hint, text) ==
    [hardware |-> [vram_mb |-> vram], preferred_lang |-> lang,
     task_hint |-> hint, text |-> text]

AllRequests ==
    { Request(v, l, h, t) : v \in HwVram, l \in Langs, h \in Hints, t \in Texts }

\* One request per routing branch, and one that is both code and Indic.
CoreRequests ==
    { Request(v, x[1], x[2], x[3]) :
        v \in HwVram,
        x \in { <<NoneStr, NoneStr, TextPlain>>,
                <<(<<104, 105>>), NoneStr, TextHindi>>,
                <<NoneStr, (<<83, 81, 76, 32, 68, 101, 98, 117, 103>>), TextDef>>,
                <<(<<104, 105>>), NoneStr, TextClassHindi>> } }

\* The requests a registry is routed on: every sample request on the
\* deployment registries, the core requests on all others.
RouterInputs(reg) == IF reg \in AppRegistries THEN AllRequests ELSE CoreRequests

\* Requests and probe outcomes of the running application.
AppRequests ==
    { r \in CoreRequests :
        /\ r.text # TextClassHindi
        /\ \/ r.hardware.vram_mb = 4096
           \/ r.hardware.vram_mb = 2000 /\ r.text = TextDef }

NoRequest == Request(0, NoneStr, NoneStr, <<>>)
NoDecision == [status |-> "none"]

-----------------------------------------------------------------------------
(* Operations *)

\* A direct call router.choose_model(hardware, preferred_lang, task_hint,
\* text); the first call's arguments and outcome are remembered in pinned.
ChooseModel(inputs) ==
    /\ \E req \in inputs :
          /\ lastReq' = req
          /\ decision' = choose_model(registry, req.hardware, req.preferred_lang,
                                      req.task_hint, req.text)
    /\ pinned' = IF pinned.set THEN pinned
                 ELSE [set |-> TRUE, req |-> lastReq', decision |-> decision',
                       at |-> counter]
    /\ op' = "choose_model"
    /\ UNCHANGED <<registry, managerVars, chatOut, runnerVars, toolVars>>

Metadata_NoEvicted(d, ev) ==
    [model |-> d.model.name,
     vram_used |-> d.estimated_vram_mb,
     fallback |-> IF d.fallback = None THEN "" ELSE d.fallback,
     evicted |-> <<>>,
     reason |-> d.reason]

\* The metadata dict of token_stream, built from the handler's decision and
\* the list its touch returned.
Metadata(d, ev) ==
    [model |-> d.model.name,
     vram_used |-> d.estimated_vram_mb,
     fallback |-> IF d.fallback = None THEN "" ELSE d.fallback,
     evicted |-> ev,
     reason |-> d.reason]

\* POST /v1/chat up to the return of the StreamingResponse: probe, route,
\* touch the manager, build the metadata envelope. A KeyError of the router
\* leaves the handler before the touch.
Chat ==
    /\ Len(touchLog) < MaxAppTouches
    /\ \E req \in AppRequests :
          LET d == choose_model(registry, req.hardware, req.preferred_lang,
                                req.task_hint, req.text)
          IN  IF d.status = "KeyError"
              THEN /\ chatOut' = [status |-> "error", req |-> req, decision |-> d]
                   /\ UNCHANGED managerVars
              ELSE /\ TouchEffect(d.model.name)
                   /\ chatOut' =
                        [status |-> "ok", req |-> req, decision |-> d,
                         metadata |-> Metadata(d, evicted')]
    /\ op' = "chat"
    /\ UNCHANGED <<registry, routerVars, runnerVars, toolVars>>

-----------------------------------------------------------------------------
(* The streaming runner: LlamaCLI.stream_chat and the chat token stream *)

\* Code points str.split() and str.strip() treat as whitespace.
Whitespace ==
    {9, 10, 11, 12, 13, 28, 29, 30, 31, 32, 133, 160, 5760,
     8232, 8233, 8239, 8287, 12288} \cup (8192..8202)

\* str.split() without arguments.
split(s) ==
    LET RECURSIVE SplitWords(_, _)
        SplitWords(rest, word) ==
            IF rest = <<>> THEN (IF word = <<>> THEN <<>> ELSE <<word>>)
            ELSE IF Head(rest) \in Whitespace
                 THEN (IF word = <<>> THEN <<>> ELSE <<word>>)
                      \o SplitWords(Tail(rest), <<>>)
                 ELSE SplitWords(Tail(rest), Append(word, Head(rest)))
    IN  SplitWords(s, <<>>)

\* seq[:n] for any integer n.
SliceTo(seq, n) ==
    LET k == IF n >= 0 THEN (IF n < Len(seq) THEN n ELSE Len(seq))
             ELSE (IF Len(seq) + n > 0 THEN Len(seq) + n ELSE 0)
    IN  SubSeq(seq, 1, k)

\* str.strip() without arguments.
Strip(s) ==
    LET RECURSIVE LStrip(_)
        LStrip(t) == IF t # <<>> /\ Head(t) \in Whitespace THEN LStrip(Tail(t))
                     ELSE t
        RECURSIVE RStrip(_)
        RStrip(t) == IF t # <<>> /\ t[Len(t)] \in Whitespace
                     THEN RStrip(SubSeq(t, 1, Len(t) - 1))
                     ELSE t
    IN  RStrip(LStrip(s))

RECURSIVE Join(_)
Join(chunks) == IF chunks = <<>> THEN <<>> ELSE Head(chunks) \o Join(Tail(chunks))

MockTokens_NoSpace(prompt, max_tokens) == SliceTo(split(prompt), max_tokens)

\* The items of the mock generator: f"{token} " for prompt.split()[:max_tokens].
MockTokens(prompt, max_tokens) ==
    LET words == SliceTo(split(prompt), max_tokens)
    IN  [i \in 1..Len(words) |-> words[i] \o <<32>>]

\* os.getenv("ARIV_MOCK_LLAMA", "") == "1"
MockMode(e) == e.ARIV_MOCK_LLAMA = <<49>>

\* LlamaCLI.__init__: binary or os.getenv("LLAMA_CPP_BIN", "llama-cli")
Binary(binary, e) ==
    IF binary # None /\ binary # "" THEN binary
    ELSE IF e.LLAMA_CPP_BIN # None THEN e.LLAMA_CPP_BIN
    ELSE "llama-cli"

\* decision.model.local_path or decision.model.name; a registry entry
\* without a local_path field has local_path None.
ModelPath(model) ==
    IF "local_path" \in DOMAIN model /\ model.local_path \notin {None, ""}
    THEN model.local_path
    ELSE model.name

ChatMaxTokens == 256
TailLimit == 1200
EmptyMark == <<60, 101, 109, 112, 116, 121, 62>>        \* "<empty>"

\* What a stdout line is after decode, strip, removal of a leading "data:"
\* and json.loads: blank, not JSON (text), or an object with its token,
\* content and text members (NoneStr: member absent).
\* A scalar line is JSON that is not an object (42, "str", [1], null, true);
\* it keeps its stripped text, here "42".
BlankLine == [kind |-> "blank"]
ScalarLine == [kind |-> "scalar", text |-> <<52, 50>>]
TextLine(t) == [kind |-> "text", text |-> t]
ObjectLine(token, content, text) ==
    [kind |-> "object", token |-> token, content |-> content, text |-> text]

Truthy(v) == v # NoneStr /\ v # <<>>

\* payload.get on a payload that is not a dict raises AttributeError.
LineRaises(line) == line.kind = "scalar"
AttributeError == [kind |-> "AttributeError"]

\* The item the stdout loop yields for a line, NoneStr when it yields none.
LineToken(line) ==
    IF line.kind = "blank" THEN NoneStr
    ELSE IF line.kind = "text" THEN line.text
    ELSE IF Truthy(line.token) THEN line.token
    ELSE IF Truthy(line.content) THEN line.content
    ELSE IF Truthy(line.text) THEN line.text
    ELSE NoneStr

\* The items the stdout loop yields for a sequence of lines; the loop ends
\* at the first line that raises.
RECURSIVE LineTokens(_)
LineTokens(lines) ==
    IF lines = <<>> \/ LineRaises(Head(lines)) THEN <<>>
    ELSE (IF LineToken(Head(lines)) = NoneStr THEN <<>>
          ELSE <<LineToken(Head(lines))>>) \o LineTokens(Tail(lines))

StdoutLines == {ObjectLine(<<111, 107>>, NoneStr, NoneStr), BlankLine, ScalarLine}
StderrChunks == {<<102, 97, 116, 97, 108, 32, 101, 114, 114, 111, 114, 10>>}
ExitCodes == {0, 17}

Prompts ==
    {<<104, 101, 108, 108, 111, 32, 119, 111, 114, 108, 100, 32, 102, 111, 111>>,
     <<32, 97, 9, 32, 98, 10>>,
     <<>>}

MockValues == {NoneStr, <<49>>, <<48>>}
BinValues == {None, "/opt/llama/llama-cli"}

NoCall == [via |-> "none"]
NoChild == [state |-> "none"]
NoError == [kind |-> "none"]

MetaFrame(md) == [kind |-> "metadata", json |-> [metadata |-> md], end |-> <<10>>]
TokenFrame(t) == [kind |-> "token", text |-> t]

Tokens(fr) ==
    LET toks == SelectSeq(fr, LAMBDA f : f.kind = "token")
    IN  [i \in 1..Len(toks) |-> toks[i].text]

FileNotFoundError(model_path) ==
    [kind |-> "FileNotFoundError", model |-> model_path]
SpawnError(binary) == [kind |-> "OSError", binary |-> binary]

StderrTail_Head(chunks) ==
    LET t == Strip(Join(chunks))
        tail == IF Len(t) > TailLimit THEN SubSeq(t, 1, TailLimit) ELSE t
    IN  IF tail = <<>> THEN EmptyMark ELSE tail

\* The stderr text of the failure message.
StderrTail(chunks) ==
    LET t == Strip(Join(chunks))
        tail == IF Len(t) > TailLimit
                THEN SubSeq(t, Len(t) - TailLimit + 1, Len(t)) ELSE t
    IN  IF tail = <<>> THEN EmptyMark ELSE tail

\* The end of stream_chat after process.wait() and the stderr task.
ExitOutcome(c, returncode, chunks) ==
    IF returncode # 0
    THEN [kind |-> "RuntimeError", binary |-> c.binary, model |-> c.model_path,
          exit_code |-> returncode, stderr |-> StderrTail(chunks)]
    ELSE NoError

Preflight_NoCheck(e) == IF MockMode(e) THEN "Mock" ELSE "Spawning"

\* The head of stream_chat: mock mode first, then the model path check.
Preflight(e) ==
    IF MockMode(e) THEN "Mock"
    ELSE IF ~e.model_exists THEN "Failed"
    ELSE "Spawning"

StreamReady_Early(c, fr) == TRUE

\* token_stream reaches stream_tokens only after it yielded the envelope.
StreamReady(c, fr) == c.via = "chat" => fr # <<>>

StderrTaskRuns_AfterStdout(task, sess) == task = "running" /\ sess = "Draining"

\* _collect_stderr is a task of its own: it runs whenever it has been created
\* and has not finished, whatever the stdout loop is doing.
StderrTaskRuns(task, sess) == task = "running"

Live == {"Idle", "Mock", "Spawning", "Streaming", "Draining"}

appVars == <<registry, managerVars, routerVars, chatOut, toolVars>>
pipeVars == <<child, outPipe, errPipe, outWritten, stderr_chunks, stderr_task, spawns>>

\* A caller (test, benchmark) obtains LlamaCLI().stream_chat(...); the
\* generator body does not run before the first item is requested.
StreamChatCall(prompts, limits) ==
    /\ op = "init"
    /\ \E prompt \in prompts, max_tokens \in limits :
          call' = [via |-> "direct", binary |-> Binary(None, env),
                   model_path |-> "model.gguf", prompt |-> prompt,
                   num_gpu_layers |-> 0, max_tokens |-> max_tokens]
    /\ op' = "stream_chat"
    /\ UNCHANGED <<appVars, env, status, frames, session, pulling, pipeVars, error>>

\* The server starts the StreamingResponse the handler returned: the status
\* line goes out, then the body iterator is asked for its first item. The
\* call keeps what token_stream closed over (decision, evicted, request).
StartResponse ==
    /\ chatOut.status = "ok" /\ status = 0 /\ call = NoCall
    /\ status' = 200
    /\ call' = [via |-> "chat", binary |-> Binary(None, env),
                model_path |-> ModelPath(chatOut.decision.model),
                prompt |-> chatOut.req.text,
                num_gpu_layers |-> chatOut.decision.num_gpu_layers,
                max_tokens |-> ChatMaxTokens,
                metadata |-> chatOut.metadata]
    /\ pulling' = TRUE
    /\ UNCHANGED <<appVars, op, env, frames, session, pipeVars, error>>

\* An exception of the handler itself (the router's KeyError) becomes the
\* framework's 500 response.
ErrorResponse ==
    /\ chatOut.status = "error" /\ status = 0
    /\ status' = 500
    /\ UNCHANGED <<appVars, op, env, call, frames, session, pulling, pipeVars, error>>

\* token_stream yields json.dumps({"metadata": metadata}) + "\n".
EmitMetadata ==
    /\ call # NoCall /\ call.via = "chat" /\ pulling /\ frames = <<>>
    /\ session = "Idle"
    /\ frames' = <<MetaFrame(call.metadata)>>
    /\ pulling' = FALSE
    /\ UNCHANGED <<appVars, op, env, call, status, session, pipeVars, error>>

\* The consumer asks for the next item.
Pull ==
    /\ call # NoCall /\ ~pulling /\ session \in Live
    /\ pulling' = TRUE
    /\ UNCHANGED <<appVars, op, env, call, status, frames, session, pipeVars, error>>

\* stream_chat starts: the mock generator, or the session proper, whose
\* Spawning phase runs from the model path check to the created process.
Begin ==
    /\ call # NoCall /\ pulling /\ session = "Idle"
    /\ StreamReady(call, frames)
    /\ session' = IF MockMode(env) THEN "Mock" ELSE "Spawning"
    /\ UNCHANGED <<appVars, op, env, call, status, frames, pulling, pipeVars, error>>

\* One step of the mock generator: the next word, or the return.
MockYield ==
    /\ session = "Mock" /\ pulling
    /\ LET items == MockTokens(call.prompt, call.max_tokens)
           done == Len(Tokens(frames))
       IN  IF done < Len(items)
           THEN /\ frames' = Append(frames, TokenFrame(items[done + 1]))
                /\ UNCHANGED session
           ELSE /\ session' = "Succeeded"
                /\ UNCHANGED frames
    /\ pulling' = FALSE
    /\ UNCHANGED <<appVars, op, env, call, status, pipeVars, error>>

\* The model path check, then create_subprocess_exec and
\* create_task(_collect_stderr()); a missing model ends the stream before
\* the exec, and the exec can fail (binary missing), which ends it too. The
\* child has some output to write (outs: how many stdout lines it may have)
\* and an exit status.
Spawn(outs) ==
    /\ session = "Spawning" /\ pulling
    /\ IF Preflight(env) = "Failed"
       THEN /\ session' = "Failed"
            /\ error' = FileNotFoundError(call.model_path)
            /\ pulling' = FALSE
            /\ UNCHANGED <<child, stderr_task, spawns>>
       ELSE \/ /\ spawns' = spawns + 1
               /\ \E o \in outs, e \in 0..MaxErrChunks, code \in ExitCodes :
                     child' = [state |-> "running", out_left |-> o,
                               err_left |-> e, code |-> code]
               /\ stderr_task' = "running"
               /\ session' = "Streaming"
               /\ UNCHANGED <<error, pulling>>
            \/ /\ session' = "Failed"
               /\ error' = SpawnError(call.binary)
               /\ pulling' = FALSE
               /\ UNCHANGED <<child, stderr_task, spawns>>
    /\ UNCHANGED <<appVars, op, env, call, status, frames, outPipe, errPipe,
                   outWritten, stderr_chunks>>

\* The child writes a line to stdout; it blocks while the pipe is full.
ChildWriteOut ==
    /\ child.state = "running" /\ child.out_left > 0
    /\ Len(outPipe) < PipeCap
    /\ \E line \in StdoutLines :
          /\ outPipe' = Append(outPipe, line)
          /\ outWritten' = Append(outWritten, line)
    /\ child' = [child EXCEPT !.out_left = @ - 1]
    /\ UNCHANGED <<appVars, op, env, call, status, frames, session, pulling,
                   errPipe, stderr_chunks, stderr_task, spawns, error>>

\* The child writes a chunk to stderr, one of chunks; it blocks while the
\* pipe is full.
ChildWriteErr(chunks) ==
    /\ child.state = "running" /\ child.err_left > 0
    /\ Len(errPipe) < PipeCap
    /\ \E chunk \in chunks : errPipe' = Append(errPipe, chunk)
    /\ child' = [child EXCEPT !.err_left = @ - 1]
    /\ UNCHANGED <<appVars, op, env, call, status, frames, session, pulling,
                   outPipe, outWritten, stderr_chunks, stderr_task, spawns, error>>

\* The child has written everything and exits, closing both pipes.
ChildExit ==
    /\ child.state = "running" /\ child.out_left = 0 /\ child.err_left = 0
    /\ child' = [child EXCEPT !.state = "exited"]
    /\ UNCHANGED <<appVars, op, env, call, status, frames, session, pulling,
                   outPipe, errPipe, outWritten, stderr_chunks, stderr_task,
                   spawns, error>>

\* One iteration of "async for raw_line in process.stdout".
ReadLine ==
    /\ session = "Streaming" /\ pulling /\ outPipe # <<>>
    /\ outPipe' = Tail(outPipe)
    /\ IF LineRaises(Head(outPipe))
       THEN /\ session' = "Failed"
            /\ error' = AttributeError
            /\ pulling' = FALSE
            /\ UNCHANGED frames
       ELSE /\ LET token == LineToken(Head(outPipe))
               IN  IF token = NoneStr
                   THEN UNCHANGED <<frames, pulling>>
                   ELSE /\ frames' = Append(frames, TokenFrame(token))
                        /\ pulling' = FALSE
            /\ UNCHANGED <<session, error>>
    /\ UNCHANGED <<appVars, op, env, call, status, child, errPipe,
                   outWritten, stderr_chunks, stderr_task, spawns>>

\* The stdout loop ends at EOF: the pipe is empty and the child closed it.
ReadEOF ==
    /\ session = "Streaming" /\ pulling
    /\ outPipe = <<>> /\ child.state = "exited"
    /\ session' = "Draining"
    /\ UNCHANGED <<appVars, op, env, call, status, frames, pulling, pipeVars, error>>

\* One iteration of _collect_stderr.
Drain ==
    /\ StderrTaskRuns(stderr_task, session) /\ errPipe # <<>>
    /\ stderr_chunks' = Append(stderr_chunks, Head(errPipe))
    /\ errPipe' = Tail(errPipe)
    /\ UNCHANGED <<appVars, op, env, call, status, frames, session, pulling,
                   child, outPipe, outWritten, stderr_task, spawns, error>>

\* _collect_stderr ends at EOF of stderr.
DrainEOF ==
    /\ StderrTaskRuns(stderr_task, session)
    /\ errPipe = <<>> /\ child.state = "exited"
    /\ stderr_task' = "done"
    /\ UNCHANGED <<appVars, op, env, call, status, frames, session, pulling,
                   child, outPipe, errPipe, outWritten, stderr_chunks, spawns,
                   error>>

\* await process.wait(); await stderr_task; then the return code decides.
Finish ==
    /\ session = "Draining" /\ pulling
    /\ child.state = "exited" /\ stderr_task = "done"
    /\ error' = ExitOutcome(call, child.code, stderr_chunks)
    /\ session' = IF error' = NoError THEN "Succeeded" ELSE "Failed"
    /\ pulling' = FALSE
    /\ UNCHANGED <<appVars, op, env, call, status, frames, pipeVars>>

\* Faulty variant: closing the stream of a chat request takes the request's
\* model out of the manager again.
Abandon_Rollback ==
    /\ call # NoCall /\ session \in Live
    /\ session' = "Abandoned"
    /\ pulling' = FALSE
    /\ loaded' = IF call.via = "chat"
                 THEN [n \in DOMAIN loaded \ {call.metadata.model} |-> loaded[n]]
                 ELSE loaded
    /\ UNCHANGED <<registry, max_loaded, counter, evicted, touchLog, routerVars,
                   chatOut, toolVars, op, env, call, status, frames, pipeVars,
                   error>>

\* The consumer closes the stream (client disconnect): the generator is
\* closed where it stands. stream_chat has no cleanup code, so nothing else
\* changes.
Abandon ==
    /\ call # NoCall /\ session \in Live
    /\ session' = "Abandoned"
    /\ pulling' = FALSE
    /\ UNCHANGED <<appVars, op, env, call, status, frames, pipeVars, error>>

-----------------------------------------------------------------------------
(* The hardware probe: scripts/probe_hw.py *)

ValueError == [status |-> "ValueError"]

\* str.split(sep) for a one-character separator.
SplitOn(s, sep) ==
    LET RECURSIVE Pieces(_, _)
        Pieces(rest, piece) ==
            IF rest = <<>> THEN <<piece>>
            ELSE IF Head(rest) = sep THEN <<piece>> \o Pieces(Tail(rest), <<>>)
            ELSE Pieces(Tail(rest), Append(piece, Head(rest)))
    IN  Pieces(s, <<>>)

\* str.replace("MiB", "").
RemoveMiB(s) ==
    LET RECURSIVE Rem(_)
        Rem(t) ==
            IF Len(t) >= 3 /\ SubSeq(t, 1, 3) = <<77, 105, 66>>
            THEN Rem(SubSeq(t, 4, Len(t)))
            ELSE IF t = <<>> THEN <<>>
            ELSE <<Head(t)>> \o Rem(Tail(t))
    IN  Rem(s)

\* int(s) for a string: surrounding whitespace, an optional sign, decimal
\* digits; anything else raises ValueError.
ParseInt(s) ==
    LET t == Strip(s)
        signed == t # <<>> /\ t[1] \in {43, 45}
        digits == IF signed THEN Tail(t) ELSE t
        RECURSIVE Value(_)
        Value(d) == IF d = <<>> THEN 0
                    ELSE 10 * Value(SubSeq(d, 1, Len(d) - 1)) + (d[Len(d)] - 48)
    IN  IF digits = <<>> \/ \E i \in 1..Len(digits) : digits[i] \notin 48..57
        THEN ValueError
        ELSE [status |-> "ok",
              value |-> IF signed /\ t[1] = 45 THEN 0 - Value(digits)
                        ELSE Value(digits)]

\* _probe_nvidia for an outcome of the nvidia-smi call: "missing"
\* (FileNotFoundError), "failed" (CalledProcessError) or "output" with its
\* text. The empty dict is [status |-> "ok", empty |-> TRUE].
probe_nvidia(q) ==
    IF q.kind \in {"missing", "failed"} THEN [status |-> "ok", empty |-> TRUE]
    ELSE
    LET line == SplitOn(Strip(q.text), 10)[1]
        raw == SplitOn(line, 44)
        parts == [i \in 1..Len(raw) |-> Strip(raw[i])]
    IN  IF Len(parts) # 2 THEN ValueError
        ELSE LET mem_mb == ParseInt(Strip(RemoveMiB(parts[2])))
             IN  IF mem_mb.status # "ok" THEN ValueError
                 ELSE [status |-> "ok", empty |-> FALSE,
                       device_name |-> parts[1], vram_mb |-> mem_mb.value]

\* probe_hardware without its cpu_mem_mb entry; fake is the value of
\* ARIV_FAKE_VRAM_MB, NoneStr when unset.
probe_hardware(q, fake) ==
    LET gpu_info == probe_nvidia(q)
    IN  IF gpu_info.status # "ok" THEN gpu_info
        ELSE IF ~gpu_info.empty
        THEN [status |-> "ok", gpu |-> TRUE, vram_mb |-> gpu_info.vram_mb,
              device_name |-> gpu_info.device_name]
        ELSE LET v == ParseInt(IF fake = NoneStr THEN <<48>> ELSE fake)
             IN  IF v.status # "ok" THEN ValueError
                 ELSE [status |-> "ok", gpu |-> FALSE, vram_mb |-> v.value,
                       device_name |-> <<99, 112, 117>>]

\* Outputs of nvidia-smi --query-gpu=name,memory.total --format=csv,noheader
SmiOutputs ==
    {<<84, 52, 44, 32, 49, 54, 32, 77, 105, 66, 10>>,             \* "T4, 16 MiB\n"
     <<84, 52, 44, 32, 49, 54, 32, 77, 105, 66, 10,
       65, 44, 32, 56, 32, 77, 105, 66, 10>>,                    \* two GPUs
     <<65, 44, 56, 77, 105, 66>>,                                \* "A,8MiB"
     <<65, 44, 32, 48, 32, 77, 105, 66, 10>>,                    \* "A, 0 MiB\n"
     <<65, 44, 32, 52, 48>>,                                     \* "A, 40"
     <<44, 32, 56, 32, 77, 105, 66, 10>>,                        \* ", 8 MiB\n"
     <<>>,                                                       \* no output
     <<65, 44, 32, 91, 78, 47, 65, 93, 10>>,                     \* "A, [N/A]\n"
     <<65, 44, 32, 66, 44, 32, 56, 32, 77, 105, 66, 10>>,        \* "A, B, 8 MiB\n"
     <<78, 111, 32, 100, 101, 118, 105, 99, 101, 115, 10>>}      \* "No devices\n"

SmiOutcomes ==
    {[kind |-> "missing"], [kind |-> "failed"]}
        \cup {[kind |-> "output", text |-> t] : t \in SmiOutputs}

\* Values of ARIV_FAKE_VRAM_MB.
FakeVramValues ==
    {NoneStr, <<48>>, <<50, 48, 48, 48>>, <<52, 48, 57, 54>>, <<32, 52, 50, 32>>,
     <<43, 55>>, <<45, 49>>, <<>>, <<97, 98, 99>>, <<49, 46, 53>>}

NoProbe == [status |-> "none"]

\* A call of probe_hardware().
ProbeHardware ==
    /\ op = "init"
    /\ \E q \in SmiOutcomes, fake \in FakeVramValues :
          probe' = [status |-> "done", nvidia |-> q, fake |-> fake,
                    out |-> probe_hardware(q, fake)]
    /\ op' = "probe_hardware"
    /\ UNCHANGED <<registry, managerVars, routerVars, chatOut, runnerVars,
                   document, reg_order, query, bench, orch>>

-----------------------------------------------------------------------------
(* The registry loader and its queries: models/__init__.py *)

\* entry.get(key, default)
EntryGet(entry, key, default) == IF key \in DOMAIN entry THEN entry[key] ELSE default

\* The ModelSpec from_yaml builds for one entry of the "models" mapping.
MakeSpec(name, entry) ==
    [name |-> name,
     type |-> EntryGet(entry, "type", "gguf"),
     family |-> EntryGet(entry, "family", ""),
     quant |-> EntryGet(entry, "quant", ""),
     vram_mb |-> EntryGet(entry, "vram_mb", 0),
     task |-> EntryGet(entry, "task", "general"),
     url |-> EntryGet(entry, "url", ""),
     license |-> EntryGet(entry, "license", ""),
     sha256 |-> EntryGet(entry, "sha256", None),
     preferred_langs |-> EntryGet(entry, "preferred_langs", <<>>),
     fallback |-> EntryGet(entry, "fallback", <<>>),
     local_path |-> EntryGet(entry, "local_path", None)]

\* ModelRegistry.from_yaml on a parsed document: the dict it fills, as the
\* mapping and its key order. A document is a mapping that may hold
\* "models", the sequence of that mapping's (name, entry) items.
from_yaml(doc) ==
    LET items == IF "models" \in DOMAIN doc THEN doc.models ELSE <<>>
        RECURSIVE Load(_, _)
        Load(i, acc) ==
            IF i > Len(items) THEN acc
            ELSE LET name == items[i].name
                 IN  Load(i + 1,
                          [models |-> (name :> MakeSpec(name, items[i].entry))
                                          @@ acc.models,
                           order |-> IF name \in DOMAIN acc.models THEN acc.order
                                     ELSE Append(acc.order, name)])
    IN  Load(1, [models |-> <<>>, order |-> <<>>])

list_models_Reversed(models, order) ==
    [i \in 1..Len(order) |-> models[order[Len(order) + 1 - i]]]

\* ModelRegistry.list_models: the values of the dict, in key order.
list_models(models, order) == [i \in 1..Len(order) |-> models[order[i]]]

\* ModelRegistry.available_local; fs is the set of paths that exist.
available_local(models, order, fs) ==
    SelectSeq(list_models(models, order),
              LAMBDA m : m.local_path \notin {None, ""} /\ m.local_path \in fs)

MaxDocLen == 2           \* most entries of a registry document

DocNames == {SARVAM, MOCK, LLAMA}
DocPaths == {"models/local.gguf", "models/other.gguf"}

\* Entries of the "models" mapping: no keys at all, a local model, a remote
\* model with a fallback list and an empty local_path.
EntryChoices ==
    {[type |-> "gguf"],
     [quant |-> "Q4_K_M", vram_mb |-> 1500, local_path |-> "models/local.gguf",
      preferred_langs |-> <<"hi">>],
     [vram_mb |-> 4000, fallback |-> <<MOCK>>, local_path |-> "", task |-> "code"]}

\* Well-formed documents: a mapping without "models", or with a "models"
\* mapping of distinct names to entries.
Documents ==
    {[version |-> 1]} \cup
    {[models |-> items] :
        items \in {s \in UNION {[1..n -> [name : DocNames, entry : EntryChoices]] :
                                   n \in 0..MaxDocLen} :
                      \A i, j \in 1..Len(s) : s[i].name = s[j].name => i = j}}

\* A registry built by ModelRegistry(models) directly has no document.
NoDocument == [kind |-> "none"]
NoQuery == [op |-> "none"]

\* Key order of a registry built directly from a dict.
CanonOrder(reg) ==
    SelectSeq(<<QWEN, SARVAM, LLAMA, MOCK>>, LAMBDA n : n \in DOMAIN reg)

\* One query of the registry: get, has, list_models or available_local.
RegistryQuery ==
    /\ \/ \E name \in DocNames \cup {GHOST} :
             query' = [op |-> "get", name |-> name,
                       result |-> IF name \in DOMAIN registry
                                  THEN [status |-> "ok", value |-> get(registry, name)]
                                  ELSE KeyError(name)]
       \/ \E name \in DocNames \cup {GHOST} :
             query' = [op |-> "has", name |-> name, result |-> has(registry, name)]
       \/ query' = [op |-> "list_models",
                    result |-> list_models(registry, reg_order)]
       \/ \E fs \in SUBSET DocPaths :
             query' = [op |-> "available_local", fs |-> fs,
                       result |-> available_local(registry, reg_order, fs)]
    /\ op' = query'.op
    /\ UNCHANGED <<registry, managerVars, routerVars, chatOut, runnerVars,
                   probe, document, reg_order, bench, orch>>

-----------------------------------------------------------------------------
(* The benchmark harness: benchmarks/run_bench.py *)

\* Durations are counted in units of 0.00001 s.

\* sorted(values), ascending.
Sorted(values) ==
    LET RECURSIVE Insert(_, _)
        Insert(x, seq) ==
            IF seq = <<>> THEN <<x>>
            ELSE IF x <= Head(seq) THEN <<x>> \o seq
            ELSE <<Head(seq)>> \o Insert(x, Tail(seq))
        RECURSIVE Sort(_)
        Sort(seq) == IF seq = <<>> THEN <<>> ELSE Insert(Head(seq), Sort(Tail(seq)))
    IN  Sort(values)

\* Faulty variant: the list is sorted in place (values.sort()).
percentile_InPlace(values, pct) ==
    LET n == Len(values)
        idx == IF pct >= 0 THEN (n * pct) \div 100 ELSE -((n * (-pct)) \div 100)
        clamped == IF idx < 0 THEN 0 ELSE IF idx > n - 1 THEN n - 1 ELSE idx
    IN  [result |-> IF n = 0 THEN 0 ELSE Sorted(values)[clamped + 1],
         values |-> Sorted(values)]

\* _percentile(values, pct), pct in hundredths: its result, and the caller's
\* list after the call (the function sorts a copy bound to its own name).
\* int() truncates towards zero.
percentile(values, pct) ==
    LET n == Len(values)
        idx == IF pct >= 0 THEN (n * pct) \div 100 ELSE -((n * (-pct)) \div 100)
        clamped == IF idx < 0 THEN 0 ELSE IF idx > n - 1 THEN n - 1 ELSE idx
    IN  [result |-> IF n = 0 THEN 0 ELSE Sorted(values)[clamped + 1],
         values |-> values]

\* statistics.median(data) of a non-empty list: the middle element of the
\* sorted data, or the mean of the two middle ones.
median(data) ==
    LET sorted == Sorted(data)
        n == Len(data)
        i == n \div 2
    IN  IF n % 2 = 1 THEN sorted[i + 1]
        ELSE (sorted[i] + sorted[i + 1]) \div 2

MaxRuns == 21             \* most durations of a benchmark run

\* Lists of durations: the first n of 0.1, 0.2, ... s, with or without a
\* fifth decimal place in use (0.12346, 0.22346, ...), ascending or
\* descending, rotated by any amount, distinct or in equal pairs. The
\* values are even and no mean of two of them is half-way between steps.
LatencyLists ==
    { [i \in 1..n |->
          LET j == IF up THEN ((i + k) % n) + 1 ELSE n - ((i + k) % n)
          IN  10000 * (IF pairs THEN (j + 1) \div 2 ELSE j)
                  + (IF fine THEN 2346 ELSE 0)] :
        n \in 0..MaxRuns, k \in 0..2, up \in BOOLEAN, fine \in BOOLEAN,
        pairs \in BOOLEAN }

\* A direct call _percentile(values, pct).
Percentile ==
    /\ op = "init"
    /\ \E values \in LatencyLists, pct \in {-50, 50, 95, 100} :
          LET out == percentile(values, pct)
          IN  bench' = [op |-> "_percentile", given |-> values, pct |-> pct,
                        latencies |-> out.values, result |-> out.result]
    /\ op' = "_percentile"
    /\ UNCHANGED <<registry, managerVars, routerVars, chatOut, runnerVars,
                   probe, document, reg_order, query, orch>>

\* The latency columns of a BenchResult row of run_benchmark, from the
\* durations of a model over a non-empty dataset; round(x, 4) of a duration
\* that is not half-way between two steps.
RunBenchmark ==
    /\ op = "init"
    /\ \E latencies \in LatencyLists \ {<<>>} :
          LET out == percentile(latencies, 95)
              Round4(x) == ((x + 5) \div 10) * 10
          IN  bench' = [op |-> "run_benchmark", given |-> latencies,
                        latencies |-> out.values,
                        latency_p50 |-> Round4(median(latencies)),
                        latency_p95 |-> Round4(out.result)]
    /\ op' = "run_benchmark"
    /\ UNCHANGED <<registry, managerVars, routerVars, chatOut, runnerVars,
                   probe, document, reg_order, query, orch>>

-----------------------------------------------------------------------------
(* The legacy orchestrator: core/orchestrator.py *)

MaxLoads == 3             \* most Llama objects created per behaviour

\* models_config: the roles of the pipeline; "critic" is not configured.
Roles == {"translator", "reasoner"}

\* After __init__: current_model is 0 for None, else the number of the Llama
\* object (they are numbered as created); last describes the latest call.
NewOrchestrator ==
    [current_model |-> 0, current_role |-> None, created |-> 0,
     last |-> [op |-> "none"]]

\* The record of a call: the fields before it, how it ended, what it
\* returned, the unload and create events in order, and the most Llama
\* objects alive at a time, the one held at the start included.
CallRecord(o, opname, role, force_reload, outcome, returned, events) ==
    LET RECURSIVE Peak(_, _)
        Peak(alive, evs) ==
            IF evs = <<>> THEN alive
            ELSE LET now == IF Head(evs) = "create" THEN alive + 1 ELSE alive - 1
                     rest == Peak(now, Tail(evs))
                 IN  IF rest > alive THEN rest ELSE alive
    IN  [op |-> opname, role |-> role, force_reload |-> force_reload,
         before |-> [current_model |-> o.current_model,
                     current_role |-> o.current_role],
         outcome |-> outcome, returned |-> returned, events |-> events,
         peak |-> Peak(IF o.current_model # 0 THEN 1 ELSE 0, events)]

\* unload_model; fault "flush": vram_manager.flush raises.
unload_model(o, fault) ==
    IF o.current_model = 0
    THEN [o EXCEPT !.last = CallRecord(o, "unload_model", None, FALSE, "ok", 0, <<>>)]
    ELSE [current_model |-> 0, current_role |-> None, created |-> o.created,
          last |-> CallRecord(o, "unload_model", None, FALSE,
                              IF fault = "flush" THEN "Exception" ELSE "ok",
                              0, <<"unload">>)]

\* Faulty variant: the new model is created while the current one is still
\* held, which is dropped when the field is bound to the new one.
load_model_NoUnload(o, opname, role, force_reload, fault) ==
    LET hot == o.current_model # 0
        Rec(outcome, returned, events) ==
            CallRecord(o, opname, role, force_reload, outcome, returned, events)
    IN  IF role \notin Roles
        THEN [o EXCEPT !.last = Rec("ValueError", 0, <<>>)]
        ELSE IF o.current_role = role /\ hot /\ ~force_reload
        THEN [o EXCEPT !.last = Rec("ok", o.current_model, <<>>)]
        ELSE IF fault = "missing"
        THEN [o EXCEPT !.last = Rec("FileNotFoundError", 0, <<>>)]
        ELSE IF fault = "ctor"
        THEN [o EXCEPT !.last = Rec("ModelLoadError", 0, <<>>)]
        ELSE [current_model |-> o.created + 1, current_role |-> role,
              created |-> o.created + 1,
              last |-> Rec(IF fault = "stats" THEN "ModelLoadError" ELSE "ok",
                           IF fault = "stats" THEN 0 ELSE o.created + 1,
                           <<"create">> \o (IF hot THEN <<"unload">> ELSE <<>>))]

\* load_model(role, force_reload=...), called as opname. A fault strikes
\* where the call passes it: "flush" (vram_manager.flush raises in the
\* unload), "missing" (no file at the path), "ctor" (the size lookup, the
\* memory advice or Llama(...) raises), "stats" (a statement after the two
\* fields are set raises).
load_model(o, opname, role, force_reload, fault) ==
    LET hot == o.current_model # 0
        events == IF hot THEN <<"unload">> ELSE <<>>
        Rec(outcome, returned, evs) ==
            CallRecord(o, opname, role, force_reload, outcome, returned, evs)
        Empty(outcome) ==
            [current_model |-> 0, current_role |-> None, created |-> o.created,
             last |-> Rec(outcome, 0, events)]
    IN  IF role \notin Roles
        THEN [o EXCEPT !.last = Rec("ValueError", 0, <<>>)]
        ELSE IF o.current_role = role /\ hot /\ ~force_reload
        THEN [o EXCEPT !.last = Rec("ok", o.current_model, <<>>)]
        ELSE IF hot /\ fault = "flush" THEN Empty("Exception")
        ELSE IF fault = "missing" THEN Empty("FileNotFoundError")
        ELSE IF fault = "ctor" THEN Empty("ModelLoadError")
        ELSE [current_model |-> o.created + 1, current_role |-> role,
              created |-> o.created + 1,
              last |-> Rec(IF fault = "stats" THEN "ModelLoadError" ELSE "ok",
                           IF fault = "stats" THEN 0 ELSE o.created + 1,
                           Append(events, "create"))]

\* A call load_model(role) or load_model(role, force_reload=True).
LoadModel ==
    /\ orch.created < MaxLoads
    /\ \E role \in Roles \cup {"critic"}, force_reload \in BOOLEAN,
          fault \in {"none", "flush", "missing", "ctor", "stats"} :
          orch' = load_model(orch, "load_model", role, force_reload, fault)
    /\ op' = "load_model"
    /\ UNCHANGED <<registry, managerVars, routerVars, chatOut, runnerVars,
                   probe, document, reg_order, query, bench>>

\* A call unload_model().
UnloadModel ==
    /\ \E fault \in {"none", "flush"} : orch' = unload_model(orch, fault)
    /\ op' = "unload_model"
    /\ UNCHANGED <<registry, managerVars, routerVars, chatOut, runnerVars,
                   probe, document, reg_order, query, bench>>

\* A call generate(role, prompt): load_model(role), then the model is
\* called, which changes no field whether it returns or raises.
Generate ==
    /\ orch.created < MaxLoads
    /\ \E role \in Roles \cup {"critic"},
          fault \in {"none", "flush", "missing", "ctor", "stats"} :
          orch' = load_model(orch, "generate", role, FALSE, fault)
    /\ op' = "generate"
    /\ UNCHANGED <<registry, managerVars, routerVars, chatOut, runnerVars,
                   probe, document, reg_order, query, bench>>

-----------------------------------------------------------------------------
(* Specifications *)

\* The registry was handed to ModelRegistry(models) as a dict.
InitGiven ==
    /\ document = NoDocument
    /\ reg_order = CanonOrder(registry)

InitCommon ==
    /\ loaded = <<>>
    /\ counter = 0
    /\ evicted = <<>>
    /\ touchLog = <<>>
    /\ lastReq = NoRequest
    /\ decision = NoDecision
    /\ pinned = [set |-> FALSE]
    /\ chatOut = [status |-> "none"]
    /\ op = "init"
    /\ call = NoCall
    /\ status = 0
    /\ frames = <<>>
    /\ session = "Idle"
    /\ pulling = FALSE
    /\ child = NoChild
    /\ outPipe = <<>>
    /\ errPipe = <<>>
    /\ outWritten = <<>>
    /\ stderr_chunks = <<>>
    /\ stderr_task = "none"
    /\ spawns = 0
    /\ error = NoError
    /\ bench = [op |-> "none"]
    /\ orch = NewOrchestrator
    /\ probe = NoProbe
    /\ query = NoQuery

\* The environment of a deployment: no mock mode, default binary, model
\* files in place.
EnvDefault ==
    [ARIV_MOCK_LLAMA |-> NoneStr, LLAMA_CPP_BIN |-> None, model_exists |-> TRUE]

Envs ==
    [ARIV_MOCK_LLAMA : MockValues, LLAMA_CPP_BIN : BinValues,
     model_exists : BOOLEAN]

\* The application of runner/app.py: one registry, ModelManager(max_loaded=2).
AppMaxLoaded == 2

Init ==
    /\ registry \in AppRegistries
    /\ max_loaded = AppMaxLoaded
    /\ env = EnvDefault
    /\ InitGiven
    /\ InitCommon

Next ==
    \/ Chat
    \/ ChooseModel(AppRequests)

Spec == Init /\ [][Next]_vars

\* A ModelManager on its own, constructed with any bound up to MaxCap.
InitManager ==
    /\ registry \in {r \in AppRegistries :
                        DOMAIN r = ModelNames /\ r[LLAMA].fallback = <<>>}
    /\ max_loaded \in 0..MaxCap
    /\ env = EnvDefault
    /\ InitGiven
    /\ InitCommon

NextManager == Touch(TouchNames)

SpecManager == InitManager /\ [][NextManager]_vars

\* A Router on its own over any registry.
InitRouter ==
    /\ registry \in Registries
    /\ max_loaded = AppMaxLoaded
    /\ env = EnvDefault
    /\ InitGiven
    /\ InitCommon

\* choose_model is applied once per behaviour.
NextRouter ==
    /\ op = "init"
    /\ ChooseModel(RouterInputs(registry))

SpecRouter == InitRouter /\ [][NextRouter]_vars

\* choose_model applied once on hardware of every size around the steps of
\* the GPU-layer estimate: none, one MB, either side of a twentieth of each
\* model size, and below, at and above the sizes.
EstimateVram ==
    {-1, 0, 1, 74, 75, 76, 199, 200, 1000, 1499, 1500, 1501, 3999, 4000, 4096}

NextEstimate ==
    /\ op = "init"
    /\ ChooseModel({ [r EXCEPT !.hardware = [vram_mb |-> v]] :
                        r \in CoreRequests, v \in EstimateVram })

SpecEstimate == InitRouter /\ [][NextEstimate]_vars

\* The chat handler on a shared manager of any bound up to MaxCap.
InitChat ==
    /\ registry \in AppRegistries
    /\ max_loaded \in 0..MaxCap
    /\ env = EnvDefault
    /\ InitGiven
    /\ InitCommon

NextChat == Chat

SpecChat == InitChat /\ [][NextChat]_vars

\* One stream per behaviour, in any environment: either a chat response or a
\* direct stream_chat call, with its consumer and its child process.
InitRunner ==
    /\ registry \in {r \in AppRegistries : r[LLAMA].fallback = <<>>}
    /\ max_loaded = AppMaxLoaded
    /\ env \in Envs
    /\ InitGiven
    /\ InitCommon

RunnerSteps ==
    \/ Pull
    \/ Begin
    \/ Spawn(0..MaxOutLines)
    \/ ChildWriteOut
    \/ ChildWriteErr(StderrChunks)
    \/ ChildExit
    \/ ReadLine
    \/ ReadEOF
    \/ Drain
    \/ DrainEOF
    \/ Finish
    \/ Abandon

NextRunner ==
    \/ op = "init" /\ Chat
    \/ StreamChatCall(Prompts, 0..MaxTokens)
    \/ StartResponse
    \/ ErrorResponse
    \/ EmitMetadata
    \/ MockYield
    \/ RunnerSteps

SpecRunner == InitRunner /\ [][NextRunner]_vars

\* A non-mock stream_chat call on an existing model file, with the event
\* loop running every ready coroutine, the consumer asking for the next item
\* whenever it holds one, and the child running whenever it is not blocked.
InitPipes ==
    /\ registry \in {r \in AppRegistries :
                        DOMAIN r = ModelNames /\ r[LLAMA].fallback = <<>>}
    /\ max_loaded = AppMaxLoaded
    /\ env \in {e \in Envs : ~MockMode(e) /\ e.model_exists}
    /\ InitGiven
    /\ InitCommon

NextPipes ==
    \/ StreamChatCall({<<>>}, {MaxTokens})
    \/ RunnerSteps

FairPipes ==
    /\ WF_vars(Pull)
    /\ WF_vars(Begin)
    /\ WF_vars(Spawn(0..MaxOutLines))
    /\ WF_vars(ChildWriteOut)
    /\ WF_vars(ChildWriteErr(StderrChunks))
    /\ WF_vars(ChildExit)
    /\ WF_vars(ReadLine)
    /\ WF_vars(ReadEOF)
    /\ WF_vars(Drain)
    /\ WF_vars(DrainEOF)
    /\ WF_vars(Finish)

SpecPipes == InitPipes /\ [][NextPipes]_vars /\ FairPipes

\* A non-mock stream_chat call whose child writes nothing to stdout and
\* chunks of any size to stderr: short, blank, and long enough, alone or
\* together, to pass the limit of the tail.
Chunk(n, c) == [i \in 1..n |-> c]

TailChunks ==
    StderrChunks \cup
        {<<10>>, Chunk(700, 120), Append(Chunk(700, 121), 10), Chunk(TailLimit, 122)}

NextTail ==
    \/ StreamChatCall({<<>>}, {MaxTokens})
    \/ Pull
    \/ Begin
    \/ Spawn({0})
    \/ ChildWriteErr(TailChunks)
    \/ ChildExit
    \/ ReadEOF
    \/ Drain
    \/ DrainEOF
    \/ Finish

SpecTail == InitPipes /\ [][NextTail]_vars

\* probe_hardware on its own: one call per behaviour, over the outcomes of
\* the nvidia-smi query and the values of ARIV_FAKE_VRAM_MB.
InitProbe ==
    /\ registry \in {r \in AppRegistries :
                        DOMAIN r = ModelNames /\ r[LLAMA].fallback = <<>>}
    /\ max_loaded = AppMaxLoaded
    /\ env = EnvDefault
    /\ InitGiven
    /\ InitCommon

NextProbe == ProbeHardware

SpecProbe == InitProbe /\ [][NextProbe]_vars

\* Concurrent chat requests on the shared manager: the handler of a request
\* runs to its return without a suspension point, at any moment between the
\* steps of the stream of another request; one stream is followed, in mock
\* mode or with the model file missing or present, its child writing to
\* stderr only.
InitConcurrent ==
    /\ registry \in {r \in AppRegistries : \A n \in DOMAIN r : r[n].fallback = <<>>}
    /\ max_loaded = AppMaxLoaded
    /\ env \in {e \in Envs : /\ e.LLAMA_CPP_BIN = None
                             /\ e.ARIV_MOCK_LLAMA # <<48>>
                             /\ MockMode(e) => e.model_exists}
    /\ InitGiven
    /\ InitCommon

NextConcurrent ==
    \/ Chat
    \/ StartResponse
    \/ ErrorResponse
    \/ EmitMetadata
    \/ MockYield
    \/ Pull
    \/ Begin
    \/ Spawn({0})
    \/ ChildWriteErr(StderrChunks)
    \/ ChildExit
    \/ ReadEOF
    \/ Drain
    \/ DrainEOF
    \/ Finish
    \/ Abandon

SpecConcurrent == InitConcurrent /\ [][NextConcurrent]_vars

\* The legacy orchestrator under any sequence of its calls.
NextOrch ==
    \/ LoadModel
    \/ UnloadModel
    \/ Generate

SpecOrch == InitProbe /\ [][NextOrch]_vars

\* The benchmark computations, one per behaviour, in the same initial state.
NextBench ==
    \/ Percentile
    \/ RunBenchmark

SpecBench == InitProbe /\ [][NextBench]_vars

\* A registry loaded by from_yaml from any well-formed document, and
\* queried.
InitRegistry ==
    /\ document \in Documents
    /\ registry = from_yaml(document).models
    /\ reg_order = from_yaml(document).order
    /\ max_loaded = AppMaxLoaded
    /\ env = EnvDefault
    /\ InitCommon

NextRegistry == RegistryQuery

SpecRegistry == InitRegistry /\ [][NextRegistry]_vars

-----------------------------------------------------------------------------
(* Properties of the resident manager, checked under SpecManager *)

LogNames == [i \in DOMAIN touchLog |-> touchLog[i].name]
LogEvicted == [i \in DOMAIN touchLog |-> touchLog[i].evicted]

\* Names touched at least once.
EverTouched == Range(LogNames)

\* Names that appear in a returned eviction list and were not touched again
\* after their last eviction.
ReportedOut ==
    { n \in EverTouched :
        \E i \in DOMAIN touchLog :
            /\ n \in Range(touchLog[i].evicted)
            /\ \A j \in (i + 1)..Len(touchLog) : touchLog[j].name # n }

\* Position in the log of the most recent touch of n (0 when never touched).
LastTouch(n) ==
    IF n \in EverTouched
    THEN CHOOSE i \in DOMAIN touchLog :
            /\ touchLog[i].name = n
            /\ \A j \in (i + 1)..Len(touchLog) : touchLog[j].name # n
    ELSE 0

\* C1: with max_loaded >= 1, after every touch the resident set holds at
\* most max_loaded names.
C1_ResidentBound ==
    max_loaded >= 1 => Cardinality(Loaded) <= max_loaded

\* A touch that had to evict left the resident set exactly full.
C1_Witness ==
    /\ op = "touch"
    /\ max_loaded >= 1
    /\ evicted # <<>>
    /\ Cardinality(Loaded) = max_loaded

\* C2: the names touched at least once and not resident are exactly the
\* names reported in an eviction list and not touched since; and a touch
\* that removes a name from the resident set reports it in its eviction list.
C2_EvictionsReported ==
    /\ [](EverTouched \ Loaded = ReportedOut)
    /\ [][(DOMAIN loaded \ DOMAIN loaded') \subseteq Range(evicted')]_vars

\* One name was evicted, touched again and is resident, while another
\* evicted name is still out.
C2_Witness ==
    /\ ReportedOut # {}
    /\ \E i \in DOMAIN touchLog : \E j \in (i + 1)..Len(touchLog) :
          /\ touchLog[j].name \in Range(touchLog[i].evicted)
          /\ touchLog[j].name \in Loaded

\* C3: a touch evicts at most one name, and the evicted name was touched
\* less recently than every name that stays resident. With max_loaded = 2 the
\* touches a, b, c, b, d return [], [], [a], [], [c]; with max_loaded = 1 the
\* touches a, b return [], [a].
C3_LruOrder ==
    /\ Len(evicted) <= 1
    /\ \A e \in Range(evicted) : \A r \in Loaded \ {e} :
          LastTouch(e) < LastTouch(r)
    /\ (max_loaded = 2 /\ LogNames = <<"a", "b", "c", "b", "d">>)
          => LogEvicted = << <<>>, <<>>, <<"a">>, <<>>, <<"c">> >>
    /\ (max_loaded = 1 /\ LogNames = <<"a", "b">>)
          => LogEvicted = << <<>>, <<"a">> >>

\* The five-touch scenario has run on a manager with max_loaded = 2.
C3_Witness ==
    /\ max_loaded = 2
    /\ LogNames = <<"a", "b", "c", "b", "d">>
    /\ evicted = <<"c">>

\* C4: with max_loaded >= 1 a touch never evicts the name it touches and
\* leaves it resident; a touch of an already resident name returns the empty
\* list, keeps the membership of the resident set and raises that name's
\* counter.
C4_TouchKeepsOwnName ==
    [][(max_loaded >= 1 /\ touchLog' # touchLog) =>
         LET name == touchLog'[Len(touchLog')].name
         IN  /\ name \notin Range(evicted')
             /\ name \in DOMAIN loaded'
             /\ name \in DOMAIN loaded =>
                   /\ evicted' = <<>>
                   /\ DOMAIN loaded' = DOMAIN loaded
                   /\ loaded'[name] > loaded[name]
                   /\ \A n \in DOMAIN loaded \ {name} : loaded'[n] = loaded[n]]_vars

\* A resident name was touched again while the resident set was full.
C4_Witness ==
    /\ max_loaded = 2
    /\ LogNames = <<"a", "b", "a">>
    /\ Loaded = {"a", "b"}
    /\ loaded["a"] = 3

-----------------------------------------------------------------------------
(* Properties of the router, checked under SpecRouter *)

\* The task hint holds a code/reasoning indicator (case-insensitively).
HasCodeHint(task_hint) ==
    /\ task_hint # NoneStr
    /\ \E w \in CODE_HINTS : Contains(Lower(task_hint), w)

\* The text holds a code-shape indicator (case-insensitively).
HasCodeShape(text) == \E w \in CODE_SHAPES : Contains(Lower(text), w)

\* The request is Indic: by its language code (case-insensitively) or by a
\* code point of the text in U+0900..U+0DFF.
IsIndicRequest(req) ==
    \/ req.preferred_lang # NoneStr /\ Lower(req.preferred_lang) \in INDIC_LANGS
    \/ \E i \in DOMAIN req.text : req.text[i] \in 2304..3583

\* The primary model the routing contract names for a request.
PrimaryOf(req) ==
    IF HasCodeHint(req.task_hint) \/ HasCodeShape(req.text) THEN QWEN
    ELSE IF IsIndicRequest(req) THEN SARVAM
    ELSE LLAMA

\* choose_model has returned a RouteDecision for lastReq.
Routed == op = "choose_model" /\ decision.status = "ok"

HwMb == lastReq.hardware.vram_mb

\* Entry i of the fallback list fb is registered and fits the hardware.
Fits(fb, i) ==
    /\ has(registry, fb[i])
    /\ registry[fb[i]].vram_mb <= HwMb

\* The primary of lastReq is registered and larger than a known, positive VRAM.
PrimaryOvershoots ==
    /\ has(registry, PrimaryOf(lastReq))
    /\ HwMb > 0
    /\ registry[PrimaryOf(lastReq)].vram_mb > HwMb

\* C5 as stated: with vram_mb > 0 every decision's model fits the hardware
\* or is the safety-net model. Violated: on a registry without
\* llama-3.2-1b-q4_k_m an overshooting primary with no fitting fallback
\* is returned as it is.
C5_AsStated ==
    (Routed /\ HwMb > 0) =>
        \/ decision.model.vram_mb <= HwMb
        \/ decision.model.name = LLAMA

\* C5 amended: on every registry that holds llama-3.2-1b-q4_k_m, with
\* vram_mb > 0 every decision's model fits the hardware or is that model;
\* on a registry without it, a model that does not fit is the primary itself.
C5_VramSafety ==
    (Routed /\ HwMb > 0) =>
        /\ has(registry, LLAMA) =>
              \/ decision.model.vram_mb <= HwMb
              \/ decision.model.name = LLAMA
        /\ ~has(registry, LLAMA) =>
              \/ decision.model.vram_mb <= HwMb
              \/ decision.model.name = PrimaryOf(lastReq)

\* The safety net replaced an overshooting primary by llama-3.2-1b-q4_k_m,
\* which itself does not fit.
C5_Witness ==
    /\ Routed
    /\ HwMb > 0
    /\ PrimaryOf(lastReq) # LLAMA
    /\ decision.model.name = LLAMA
    /\ decision.model.vram_mb > HwMb

\* C6: when the primary overshoots a positive VRAM and some entry of its
\* fallback list is registered and fits, the decision's model is the first
\* such entry in list order and decision.fallback is the primary's name.
C6_FirstFit ==
    (Routed /\ PrimaryOvershoots) =>
        LET fb == registry[PrimaryOf(lastReq)].fallback
        IN  \A i \in DOMAIN fb :
                (Fits(fb, i) /\ \A j \in 1..(i - 1) : ~Fits(fb, j)) =>
                    /\ decision.model = registry[fb[i]]
                    /\ decision.fallback = PrimaryOf(lastReq)

\* Two different entries of the list fit and the earlier one was chosen.
C6_Witness ==
    /\ Routed
    /\ PrimaryOvershoots
    /\ LET fb == registry[PrimaryOf(lastReq)].fallback
       IN  /\ Len(fb) = 2
           /\ fb[1] # fb[2]
           /\ Fits(fb, 1)
           /\ Fits(fb, 2)
           /\ decision.model.name = fb[1]
           /\ decision.fallback = PrimaryOf(lastReq)

\* C7: choose_model fails only when the primary itself is unregistered; an
\* unregistered entry of the fallback list is skipped and the entries after
\* it are still considered in order.
C7_UnregisteredSkipped ==
    op = "choose_model" =>
        /\ decision.status \in {"ok", "KeyError"}
        /\ decision.status = "KeyError" <=> ~has(registry, PrimaryOf(lastReq))
        /\ PrimaryOvershoots =>
              LET fb == registry[PrimaryOf(lastReq)].fallback
              IN  \A i \in DOMAIN fb : \A j \in (i + 1)..Len(fb) :
                      ( /\ ~has(registry, fb[i])
                        /\ Fits(fb, j)
                        /\ \A k \in 1..(j - 1) : ~Fits(fb, k) ) =>
                          /\ decision.model = registry[fb[j]]
                          /\ decision.fallback = PrimaryOf(lastReq)

\* The list starts with an unregistered name and the entry after it was
\* chosen, a model other than the safety net.
C7_Witness ==
    /\ Routed
    /\ PrimaryOvershoots
    /\ LET fb == registry[PrimaryOf(lastReq)].fallback
       IN  /\ Len(fb) = 2
           /\ ~has(registry, fb[1])
           /\ decision.model.name = fb[2]
           /\ decision.model.name # LLAMA

\* C9: the primary is qwen-2.5-3b-q4_k_m for a code_logic request (also an
\* Indic one), else sarvam-2b-q4_k_m for an Indic request, else
\* llama-3.2-1b-q4_k_m: a KeyError names it, a recorded fallback names it,
\* and when the hardware VRAM is at least its vram_mb it is the decision's
\* model.
C9_PrimarySelection ==
    op = "choose_model" =>
        LET p == PrimaryOf(lastReq)
        IN  /\ decision.status = "KeyError" => decision.key = p
            /\ decision.status = "ok" =>
                  /\ has(registry, p)
                  /\ decision.fallback # None => decision.fallback = p
                  /\ HwMb >= registry[p].vram_mb => decision.model = registry[p]
                  /\ decision.reason.task =
                        (IF p = QWEN THEN "code_logic" ELSE "indic")

\* A request that is both code-shaped and Indic was routed to qwen on
\* hardware that holds it.
C9_Witness ==
    /\ Routed
    /\ lastReq.text = TextClassHindi
    /\ lastReq.task_hint = NoneStr
    /\ IsIndicRequest(lastReq)
    /\ HwMb >= registry[QWEN].vram_mb
    /\ decision.model.name = QWEN

\* C10 as stated: fallback is set exactly when the chosen model differs from
\* the primary, and then names the primary. Violated: the safety net records
\* the primary's name also when it leaves the model unchanged (the primary is
\* llama-3.2-1b-q4_k_m itself, or that model is not registered).
C10_AsStated ==
    Routed =>
        /\ decision.fallback # None <=> decision.model.name # PrimaryOf(lastReq)
        /\ decision.fallback # None => decision.fallback = PrimaryOf(lastReq)

-----------------------------------------------------------------------------
(* Properties of the running application, checked under Spec *)

-----------------------------------------------------------------------------
(* Properties of the chat stream and the runner session *)

\* C11: in a chat response the first frame delivered is the metadata
\* envelope of the request, one JSON line closed by a newline; every later
\* frame is a token, so no token precedes the envelope; and the runner has
\* not started, succeeded or failed (model path missing, child exited
\* non-zero without a token) before the envelope was delivered.
C11_EnvelopeFirst ==
    call.via = "chat" =>
        /\ frames # <<>> =>
              /\ frames[1] = MetaFrame(chatOut.metadata)
              /\ frames[1].end = <<10>>
        /\ \A i \in 2..Len(frames) : frames[i].kind = "token"
        /\ session \notin {"Idle", "Abandoned"} => frames # <<>>

\* A chat stream whose child exited non-zero without producing a token: the
\* envelope is the only frame.
C11_Witness ==
    /\ call.via = "chat"
    /\ session = "Failed"
    /\ error.kind = "RuntimeError"
    /\ outWritten = <<>>
    /\ Len(frames) = 1
    /\ frames[1].kind = "metadata"

\* C12: every chat request that reaches the manager touches exactly the
\* model it chose; the envelope's "model" is that name, and its "evicted"
\* list is the list that touch returned, which holds, once each, exactly the
\* names resident before (or added by) the touch and not resident after it.
\* With max_loaded = 1, a chat routed to A followed by one routed to another
\* model B reports evicted = <<A>>.
C12_EvictedInEnvelope ==
    [][(op' = "chat" /\ chatOut'.status = "ok") =>
          LET md == chatOut'.metadata
              gone == (DOMAIN loaded \cup {md.model}) \ DOMAIN loaded'
          IN  /\ Len(touchLog') = Len(touchLog) + 1
              /\ touchLog'[Len(touchLog')].name = md.model
              /\ md.model = chatOut'.decision.model.name
              /\ md.evicted = touchLog'[Len(touchLog')].evicted
              /\ Range(md.evicted) = gone
              /\ Len(md.evicted) = Cardinality(gone)
              /\ (max_loaded = 1 /\ Len(touchLog) = 1
                    /\ touchLog[1].name # md.model)
                   => md.evicted = <<touchLog[1].name>>]_vars

\* max_loaded = 1: the second chat was routed to another model than the
\* first and its envelope reports the first as evicted.
C12_Witness ==
    /\ max_loaded = 1
    /\ op = "chat"
    /\ Len(touchLog) = 2
    /\ touchLog[1].name # touchLog[2].name
    /\ chatOut.status = "ok"
    /\ chatOut.metadata.model = touchLog[2].name
    /\ chatOut.metadata.evicted = <<touchLog[1].name>>

\* C13: a non-mock session whose child was spawned ends only after stdout
\* reached EOF (child exited, pipe empty), with every token of every line the
\* child wrote already delivered, in order; when the exit status is not zero
\* it ends with a RuntimeError carrying the configured binary, the model path
\* of the call, the exit code and the stripped stderr text ("<empty>" when
\* there is none), e.g. exit 17 with stderr "fatal error\n" gives
\* exit_code = 17 and stderr "fatal error"; when the exit status is zero it
\* ends without error whatever was written to stderr.
C13_AsStated ==
    (session \in {"Succeeded", "Failed"} /\ child.state # "none") =>
        /\ child.state = "exited" /\ outPipe = <<>>
        /\ child.out_left = 0 /\ child.err_left = 0 /\ errPipe = <<>>
        /\ Tokens(frames) = LineTokens(outWritten)
        /\ child.code # 0 =>
              /\ session = "Failed"
              /\ error.kind = "RuntimeError"
              /\ error.binary = Binary(None, env)
              /\ error.model = call.model_path
              /\ error.exit_code = child.code
              /\ error.stderr = IF stderr_chunks = <<>> THEN EmptyMark
                                ELSE Strip(Join(stderr_chunks))
              /\ (child.code = 17 /\ Len(stderr_chunks) = 1) =>
                    error.stderr = <<102, 97, 116, 97, 108, 32, 101, 114, 114, 111, 114>>
        /\ child.code = 0 => (session = "Succeeded" /\ error = NoError)

C15_AsStated ==
    (session = "Abandoned" /\ child.state # "none" /\ ~ENABLED NextPipes) =>
        (child.state = "exited" /\ stderr_task = "done")

\* C16: outside mock mode, with the model path missing, a session can only
\* be idle, at its path check, abandoned before that, or failed with the
\* model-not-found error naming the path of the call; no token is delivered
\* and no child process is ever created.
C16_Preflight ==
    (~MockMode(env) /\ ~env.model_exists) =>
        /\ session \in {"Idle", "Spawning", "Failed", "Abandoned"}
        /\ session = "Failed" => error = FileNotFoundError(call.model_path)
        /\ Tokens(frames) = <<>>
        /\ spawns = 0
        /\ child = NoChild
        /\ stderr_task = "none"

\* A direct stream_chat call on a missing model path has failed.
C16_Witness ==
    /\ env.ARIV_MOCK_LLAMA = <<48>>
    /\ ~env.model_exists
    /\ call.via = "direct"
    /\ session = "Failed"
    /\ error.kind = "FileNotFoundError"
    /\ spawns = 0

\* C17: in mock mode (ARIV_MOCK_LLAMA = "1") no child is created and no
\* error raised; the tokens delivered are always a prefix of, and at the
\* successful end exactly, the first min(max_tokens, number of words) words
\* of the prompt, each followed by one space, where the words are the
\* maximal whitespace-free pieces of the prompt in order; "hello world foo"
\* with max_tokens = 2 ends with <<"hello ", "world ">>.
C17_MockMode ==
    (MockMode(env) /\ call # NoCall) =>
        LET words == split(call.prompt)
            n == IF call.max_tokens < Len(words) THEN call.max_tokens
                 ELSE Len(words)
            got == Tokens(frames)
        IN  /\ spawns = 0 /\ child = NoChild /\ error = NoError
            /\ session \in {"Idle", "Mock", "Succeeded", "Abandoned"}
            /\ \A i \in 1..Len(words) :
                  words[i] # <<>> /\ Range(words[i]) \cap Whitespace = {}
            /\ Join(words) = SelectSeq(call.prompt, LAMBDA c : c \notin Whitespace)
            /\ Len(got) <= n
            /\ \A i \in 1..Len(got) : got[i] = words[i] \o <<32>>
            /\ session = "Succeeded" => Len(got) = n
            /\ (session = "Succeeded" /\ call.max_tokens = 2
                  /\ call.prompt = <<104, 101, 108, 108, 111, 32, 119, 111, 114,
                                     108, 100, 32, 102, 111, 111>>)
                 => got = << <<104, 101, 108, 108, 111, 32>>,
                             <<119, 111, 114, 108, 100, 32>> >>

\* The mock stream of "hello world foo" with max_tokens = 2 has completed
\* with two tokens.
C17_Witness ==
    /\ MockMode(env)
    /\ call.via = "direct"
    /\ call.max_tokens = 2
    /\ Len(split(call.prompt)) = 3
    /\ session = "Succeeded"
    /\ Len(Tokens(frames)) = 2

\* C18: a chat request whose runner failed with the model-not-found error
\* has been answered with a 4xx or 5xx status.
C18_AsStated ==
    (call.via = "chat" /\ session = "Failed" /\ error.kind = "FileNotFoundError")
        => status \in 400..599

-----------------------------------------------------------------------------
(* Properties of the probe and of the registry *)

\* C19: every probe_hardware call returns a profile, whatever the accelerator
\* query met and whatever ARIV_FAKE_VRAM_MB holds; when the query did not
\* produce output (utility missing, non-zero exit) the profile has
\* gpu = FALSE, device_name "cpu" and vram_mb equal to the override, 0 when
\* the override is unset.
C19_AsStated ==
    probe.status = "done" =>
        /\ probe.out.status = "ok"
        /\ probe.nvidia.kind # "output" =>
              /\ probe.out.gpu = FALSE
              /\ probe.out.device_name = <<99, 112, 117>>
              /\ probe.out.vram_mb =
                    (IF probe.fake = NoneStr THEN 0 ELSE ParseInt(probe.fake).value)

\* C20: for a registry loaded from a well-formed document, list_models
\* yields one ModelSpec per entry of the document's "models" mapping, in
\* document order, each carrying the entry's name and values (defaults where
\* the entry has no key); get(name) returns the spec whose name is name and
\* raises exactly for the names the document does not hold; has(name) is
\* true exactly for the names the document holds, that is exactly when
\* get(name) does not raise; and no query changes the registry.
C20_RegistryRoundTrip ==
    /\ [](LET items == IF "models" \in DOMAIN document THEN document.models
                       ELSE <<>>
              names == {items[i].name : i \in 1..Len(items)}
          IN  /\ query.op = "list_models" =>
                    /\ Len(query.result) = Len(items)
                    /\ \A i \in 1..Len(items) :
                          LET m == query.result[i]
                              e == items[i].entry
                          IN  /\ m.name = items[i].name
                              /\ m.vram_mb = (IF "vram_mb" \in DOMAIN e
                                              THEN e.vram_mb ELSE 0)
                              /\ m.local_path = (IF "local_path" \in DOMAIN e
                                                 THEN e.local_path ELSE None)
                              /\ m.fallback = (IF "fallback" \in DOMAIN e
                                               THEN e.fallback ELSE <<>>)
              /\ query.op = "get" =>
                    /\ (query.result.status = "ok") = (query.name \in names)
                    /\ query.result.status = "ok" =>
                          query.result.value.name = query.name
                    /\ query.result.status # "ok" =>
                          query.result = KeyError(query.name)
              /\ query.op = "has" => query.result = (query.name \in names))
    /\ [][op' \in {"get", "has", "list_models", "available_local"} =>
            UNCHANGED <<registry, reg_order, document>>]_vars

\* A two-entry document with the mock model before sarvam has been listed.
C20_Witness ==
    /\ query.op = "list_models"
    /\ Len(query.result) = 2
    /\ query.result[1].name = MOCK
    /\ query.result[2].name = SARVAM
    /\ query.result[1].local_path = "models/local.gguf"

\* C21: a non-mock session changes position only along Idle -> Spawning ->
\* Streaming -> Draining -> Succeeded or Failed: Spawning -> Failed with the
\* model-not-found or the spawn error, Streaming -> Draining at stdout EOF,
\* Draining -> Succeeded on exit status zero, Draining -> Failed on a
\* non-zero one (leaving by abandonment aside); Succeeded and Failed are
\* never left; at most one child is created; and a token is delivered only
\* by a step taken in Streaming.
C21_AsStated ==
    [][~MockMode(env) =>
          /\ session' # session =>
                \/ session = "Idle" /\ session' = "Spawning"
                \/ session = "Spawning" /\ session' = "Streaming"
                \/ /\ session = "Spawning" /\ session' = "Failed"
                   /\ error'.kind \in {"FileNotFoundError", "OSError"}
                \/ /\ session = "Streaming" /\ session' = "Draining"
                   /\ outPipe = <<>> /\ child.state = "exited"
                \/ /\ session = "Draining" /\ session' = "Succeeded"
                   /\ child.code = 0
                \/ /\ session = "Draining" /\ session' = "Failed"
                   /\ child.code # 0
                \/ session \in Live /\ session' = "Abandoned"
          /\ spawns' <= 1
          /\ spawns' # spawns => (session = "Spawning" /\ session' = "Streaming")
          /\ Tokens(frames') # Tokens(frames) => session = "Streaming"]_vars

\* C22: in a non-mock session with a child, the tokens delivered are at every
\* moment a prefix of, and from stdout EOF on equal to, the in-order image of
\* the lines the child wrote, where a blank line gives nothing, an object
\* gives the first non-empty of token, content and text (nothing if none),
\* and every other line gives its stripped text; and the session fails only
\* with the exit-status error, never because of what a line holds.
C22_AsStated ==
    LET Image(line) == IF line.kind = "scalar" THEN line.text ELSE LineToken(line)
        RECURSIVE Images(_)
        Images(lines) ==
            IF lines = <<>> THEN <<>>
            ELSE (IF Image(Head(lines)) = NoneStr THEN <<>>
                  ELSE <<Image(Head(lines))>>) \o Images(Tail(lines))
        all == Images(outWritten)
        got == Tokens(frames)
    IN  (~MockMode(env) /\ child.state # "none") =>
            /\ Len(got) <= Len(all) /\ got = SubSeq(all, 1, Len(got))
            /\ session \in {"Draining", "Succeeded", "Failed"} => got = all
            /\ session = "Failed" => error.kind = "RuntimeError"

\* C23 (as stated): the stderr text of the exit-status error is "<empty>"
\* when no non-whitespace stderr was collected, and otherwise has length at
\* most 1200 and is a suffix of the concatenation of the collected chunks.
C23_AsStated ==
    (session = "Failed" /\ error.kind = "RuntimeError") =>
        LET all == Join(stderr_chunks)
            n == Len(error.stderr)
        IN  IF Strip(all) = <<>> THEN error.stderr = EmptyMark
            ELSE /\ n <= TailLimit /\ n <= Len(all)
                 /\ error.stderr = SubSeq(all, Len(all) - n + 1, Len(all))

\* C23: the stderr text of the exit-status error is "<empty>" when no
\* non-whitespace stderr was collected, and otherwise has length at most
\* 1200 and is a suffix of the concatenation, with the whitespace at its two
\* ends removed, of the collected chunks in arrival order; when the error is
\* formed the child has exited, the stderr pipe is empty and the collecting
\* task is done, so every chunk the child wrote is among the collected ones.
C23_BoundedTail ==
    (session = "Failed" /\ error.kind = "RuntimeError") =>
        LET all == Strip(Join(stderr_chunks))
            n == Len(error.stderr)
        IN  /\ child.state = "exited" /\ child.err_left = 0
            /\ errPipe = <<>> /\ stderr_task = "done"
            /\ IF all = <<>> THEN error.stderr = EmptyMark
               ELSE /\ n <= TailLimit /\ n <= Len(all)
                    /\ error.stderr = SubSeq(all, Len(all) - n + 1, Len(all))

C23_Witness ==
    /\ session = "Failed" /\ error.kind = "RuntimeError"
    /\ Len(stderr_chunks) = 2 /\ stderr_chunks[1] # stderr_chunks[2]
    /\ Len(Strip(Join(stderr_chunks))) > TailLimit
    /\ Len(error.stderr) = TailLimit

\* C24: in every decision of choose_model, num_gpu_layers is taken from the
\* hardware size v and the size m of the model the decision names (the final
\* one, a registry entry): 0 when v <= 0, 999 when v >= m, and otherwise the
\* floor of 40 * max(v / m, 0.05), at least 1: 2 when v is under a twentieth
\* of m, else the k with k * m <= 40 * v < (k + 1) * m; so for 0 < v < m it
\* lies in 1..39, no smaller size gives more layers and no larger size below
\* m gives fewer.
C24_GpuLayers ==
    (op = "choose_model" /\ decision.status = "ok") =>
        LET v == lastReq.hardware.vram_mb
            m == decision.model.vram_mb
            n == decision.num_gpu_layers
        IN  /\ decision.model = registry[decision.model.name]
            /\ decision.estimated_vram_mb = m
            /\ v <= 0 => n = 0
            /\ (v > 0 /\ v >= m) => n = 999
            /\ (0 < v /\ v < m) =>
                  /\ n \in 1..39
                  /\ IF 20 * v < m THEN n = 2
                     ELSE n * m <= 40 * v /\ 40 * v < (n + 1) * m
                  /\ \A w \in EstimateVram :
                        /\ (0 < w /\ w <= v) => estimate_gpu_layers(w, m) <= n
                        /\ (v <= w /\ w < m) => estimate_gpu_layers(w, m) >= n

\* A decision that was downgraded to a model still larger than the
\* hardware, sized under a twentieth of it.
C24_Witness ==
    /\ op = "choose_model" /\ decision.status = "ok"
    /\ decision.fallback # None
    /\ decision.model.name # decision.fallback
    /\ 0 < lastReq.hardware.vram_mb
    /\ 20 * lastReq.hardware.vram_mb < decision.model.vram_mb
    /\ decision.num_gpu_layers = 2

\* C27: when the fallback walk selects a candidate (the primary overshoots a
\* non-zero VRAM and an entry of its list is registered and fits), the
\* condition of the safety net is false for the decision: its model fits the
\* hardware and is a fitting entry of the list, not the safety net's choice
\* where that differs, and its fallback is the name the walk recorded; when
\* the walk selects none, the model is the primary or the safety net's
\* model. So the model changes at most once and the fallback is written at
\* most once.
C27_WalkExcludesSafetyNet ==
    Routed =>
        LET p == PrimaryOf(lastReq)
            fb == registry[p].fallback
            walked == /\ HwMb # 0 /\ registry[p].vram_mb > HwMb
                      /\ \E i \in DOMAIN fb : Fits(fb, i)
        IN  /\ walked =>
                  /\ ~(HwMb < decision.model.vram_mb)
                  /\ \E i \in DOMAIN fb :
                        Fits(fb, i) /\ decision.model = registry[fb[i]]
                  /\ decision.fallback = p
            /\ ~walked =>
                  /\ decision.model.name \in {p, LLAMA}
                  /\ decision.fallback \in {None, p}

\* The walk chose a model other than llama-3.2-1b-q4_k_m on a registry that
\* holds that model, and the decision kept the walk's choice.
C27_Witness ==
    /\ Routed
    /\ PrimaryOvershoots
    /\ has(registry, LLAMA)
    /\ decision.model.name \notin {LLAMA, PrimaryOf(lastReq)}
    /\ decision.model.vram_mb <= HwMb
    /\ decision.fallback = PrimaryOf(lastReq)

\* C28 (as stated): on hardware with vram_mb = 0, on every registry that
\* holds the three primary names, every request is routed to its primary as
\* registered, with no fallback and num_gpu_layers = 0. Violated: the safety
\* net compares 0 with the model's size and fires.
C28_AsStated ==
    (op = "choose_model" /\ HwMb = 0 /\ {QWEN, SARVAM, LLAMA} \subseteq DOMAIN registry) =>
        /\ decision.status = "ok"
        /\ decision.model = registry[PrimaryOf(lastReq)]
        /\ decision.fallback = None
        /\ decision.num_gpu_layers = 0
        /\ decision.estimated_vram_mb = registry[PrimaryOf(lastReq)].vram_mb

\* C25 (as stated): latency_p95 of a benchmark row is the element of rank
\* floor(0.95 * n) (from 0, at most n - 1) of the n durations in ascending
\* order, and latency_p50 is their median.
C25_AsStated ==
    bench.op = "run_benchmark" =>
        LET l == bench.given
            n == Len(l)
            Below(e) == Cardinality({i \in 1..n : l[i] < e})
            UpTo(e) == Cardinality({i \in 1..n : l[i] <= e})
            AtRank(k) == CHOOSE e \in Range(l) : Below(e) <= k /\ k < UpTo(e)
            k95 == IF (95 * n) \div 100 > n - 1 THEN n - 1 ELSE (95 * n) \div 100
        IN  /\ bench.latency_p95 = AtRank(k95)
            /\ bench.latency_p50 =
                  IF n % 2 = 1 THEN AtRank(n \div 2)
                  ELSE (AtRank(n \div 2 - 1) + AtRank(n \div 2)) \div 2

\* C25: latency_p95 of a benchmark row is, rounded to 4 decimals, the
\* element of rank floor(0.95 * n) (from 0, at most n - 1) of the n
\* durations in ascending order, and latency_p50 is, rounded to 4 decimals,
\* their median; 0.1, 0.2, 0.3, 0.4, 0.5 in any order give p50 = 0.3 and
\* p95 = 0.5; _percentile of an empty list is 0, of a non-empty one the
\* element at the rank int(pct * n) brought into 0..n-1; and the caller's
\* list is afterwards as it was given.
C25_Percentiles ==
    LET l == bench.given
        n == Len(l)
        Below(e) == Cardinality({i \in 1..n : l[i] < e})
        UpTo(e) == Cardinality({i \in 1..n : l[i] <= e})
        AtRank(k) == CHOOSE e \in Range(l) : Below(e) <= k /\ k < UpTo(e)
        Nearest(x) == CHOOSE r \in {10 * (x \div 10), 10 * (x \div 10) + 10} :
                          2 * r - 10 < 2 * x /\ 2 * x < 2 * r + 10
        k95 == IF (95 * n) \div 100 > n - 1 THEN n - 1 ELSE (95 * n) \div 100
    IN  /\ bench.op # "none" => bench.latencies = bench.given
        /\ bench.op = "run_benchmark" =>
              /\ bench.latency_p95 = Nearest(AtRank(k95))
              /\ bench.latency_p50 =
                    Nearest(IF n % 2 = 1 THEN AtRank(n \div 2)
                            ELSE (AtRank(n \div 2 - 1) + AtRank(n \div 2)) \div 2)
              /\ Range(l) = {10000, 20000, 30000, 40000, 50000} /\ n = 5 =>
                    bench.latency_p50 = 30000 /\ bench.latency_p95 = 50000
        /\ bench.op = "_percentile" =>
              /\ n = 0 => bench.result = 0
              /\ n > 0 =>
                    bench.result =
                        AtRank(IF bench.pct < 0 THEN 0
                               ELSE IF (bench.pct * n) \div 100 > n - 1 THEN n - 1
                               ELSE (bench.pct * n) \div 100)

\* A row over 21 unsorted durations with a fifth decimal place: the 95th
\* percentile is the second largest, not the largest, and is rounded.
C25_Witness ==
    /\ bench.op = "run_benchmark"
    /\ Len(bench.given) = 21
    /\ bench.given # Sorted(bench.given)
    /\ bench.latency_p95 < Sorted(bench.given)[21]
    /\ bench.latency_p95 \notin Range(bench.given)
    /\ bench.latencies = bench.given

\* C26: after any sequence of load_model, unload_model and generate calls,
\* failing ones included, the orchestrator holds a model exactly when it
\* holds a role, and no call had more than one Llama object alive at a
\* time; load_model(role) for the loaded role returns the resident model
\* and neither unloads nor creates one; a load of another role that creates
\* a model has unloaded the current one first; and after unload_model both
\* fields are None.
C26_SingleResidency ==
    LET last == orch.last
        loads == last.op \in {"load_model", "generate"}
    IN  /\ orch.current_model = 0 <=> orch.current_role = None
        /\ orch.current_model <= orch.created
        /\ last.op # "none" => last.peak <= 1
        /\ (/\ loads /\ ~last.force_reload
            /\ last.before.current_model # 0
            /\ last.before.current_role = last.role) =>
                /\ last.outcome = "ok"
                /\ last.returned = last.before.current_model
                /\ orch.current_model = last.before.current_model
                /\ orch.current_role = last.role
                /\ last.events = <<>>
        /\ (/\ loads /\ last.role \in Roles
            /\ last.before.current_model # 0
            /\ last.before.current_role # last.role) =>
                /\ last.events # <<>> /\ Head(last.events) = "unload"
                /\ orch.current_model # last.before.current_model
        /\ last.op = "unload_model" =>
                orch.current_model = 0 /\ orch.current_role = None

\* The second Llama object created was unloaded for a load of another role,
\* which created the third.
C26_Witness ==
    /\ orch.last.op = "load_model"
    /\ orch.last.before.current_model = 2
    /\ orch.last.before.current_role # orch.last.role
    /\ orch.last.events = <<"unload", "create">>
    /\ orch.current_model = 3
    /\ orch.last.outcome = "ok"

\* C29: with chat handlers running at any moment between the steps of a
\* stream, in every state the manager holds at most max_loaded names, no two
\* of them with the same counter, the internal counter is the number of
\* touches made so far and no resident counter is above it; and the manager
\* changes only in a step that is one whole touch (counter and touch count
\* up by one), which is no step of a stream.
C29_SharedManager ==
    /\ [](/\ Cardinality(DOMAIN loaded) <= max_loaded
          /\ \A a, b \in DOMAIN loaded : a # b => loaded[a] # loaded[b]
          /\ counter = Len(touchLog)
          /\ \A n \in DOMAIN loaded : 1 <= loaded[n] /\ loaded[n] <= counter)
    /\ [][managerVars' # managerVars =>
            /\ counter' = counter + 1
            /\ Len(touchLog') = Len(touchLog) + 1
            /\ loaded'[touchLog'[Len(touchLog')].name] = counter'
            /\ UNCHANGED <<call, status, frames, session, pulling, pipeVars, error>>]_vars

\* A third request was handled, and evicted a name, while the mock stream of
\* an earlier request stood between two of its tokens.
C29_Witness ==
    /\ session = "Mock" /\ Len(Tokens(frames)) = 1 /\ ~pulling
    /\ Len(touchLog) = 3
    /\ evicted # <<>>
    /\ chatOut.status = "ok"
    /\ chatOut.metadata # call.metadata
    /\ chatOut.metadata.evicted = evicted

\* C30: the stream of a chat request is opened only after the request's
\* touch (its model and eviction list are in the touch log); when that
\* stream has failed (model not found, non-zero exit) or was abandoned and
\* no other request was handled since, the model is resident and the names
\* its touch evicted are not; the manager changes only in the handler step
\* of a request that routed, by exactly one touch of the decision's model,
\* never in a step of a stream; and a request whose routing fails leaves
\* the manager as it was.
C30_TouchNotRolledBack ==
    /\ []((call # NoCall /\ call.via = "chat") =>
            \E i \in DOMAIN touchLog :
                /\ touchLog[i].name = call.metadata.model
                /\ touchLog[i].evicted = call.metadata.evicted)
    /\ []((/\ session \in {"Failed", "Abandoned"}
           /\ call.via = "chat"
           /\ chatOut.status = "ok" /\ chatOut.metadata = call.metadata) =>
                /\ call.metadata.model \in DOMAIN loaded
                /\ \A i \in DOMAIN call.metadata.evicted :
                      call.metadata.evicted[i] \notin DOMAIN loaded)
    /\ [][managerVars' # managerVars =>
            /\ chatOut'.status = "ok"
            /\ touchLog' = Append(touchLog,
                                  [name |-> chatOut'.decision.model.name,
                                   evicted |-> chatOut'.metadata.evicted])
            /\ chatOut'.decision.model.name \in DOMAIN loaded'
            /\ UNCHANGED <<call, status, frames, session>>]_vars
    /\ [][(chatOut' # chatOut /\ chatOut'.status = "error") =>
            UNCHANGED managerVars]_vars

\* The stream of the third request, whose touch evicted a name, failed on
\* the child's exit status; the model is resident and the evicted name is
\* not.
C30_Witness ==
    /\ session = "Failed" /\ error.kind = "RuntimeError"
    /\ call.via = "chat"
    /\ Len(touchLog) = 3
    /\ touchLog[3].name = call.metadata.model
    /\ call.metadata.evicted # <<>>
    /\ call.metadata.model \in DOMAIN loaded
    /\ call.metadata.evicted[1] \notin DOMAIN loaded

====
